---------------------------- MODULE Spec2Model ----------------------------
(***************************************************************************)
(* The delivery queue (class Worker) of the Checkend Node SDK together     *)
(* with the Transport (class Client) it drives.                            *)
(*                                                                         *)
(* JavaScript runs the Worker's methods on one thread.  A method runs to   *)
(* completion unless it reaches an await; each stretch of code between two *)
(* awaits is one action here.  processQueue has two awaits, both inside    *)
(* sendWithThrottle: the throttle sleep and the Transport call.  A         *)
(* suspended invocation of processQueue is an element of loops.            *)
(***************************************************************************)
EXTENDS Integers, Sequences, FiniteSets

VARIABLES
    queue,       \* Worker.queue: the QueueItems not yet shifted
    processing,  \* Worker.processing
    shutdown,    \* Worker.shutdown
    throttle,    \* Worker.throttle
    loops,       \* the invocations of processQueue suspended at an await
    inFlight,    \* number of Client.send calls whose fetch has not settled
    flushes,     \* the promises and timers created by the calls of flush
    stopper,     \* the promise, timer and drain poll created by stop
    tracking,    \* history: TRUE when the notices pushed are numbered and recorded
    pushes,      \* history: the calls of push, in order, with what each returned
    sent,        \* history: the payloads handed to fetch, in order
    attempts,    \* history: per payload, the number of fetch calls made for it
    completed,   \* history: the payloads whose send attempt has returned
    lastOk,      \* history: what the last send returned: "ok", "null" or "none"
    kfail,       \* history: failed sends in a row since the level was 0
    call,        \* one call of Client.send followed from fetch to its return
    globalContext,  \* the process-wide fallback context
    globalUser,     \* the process-wide fallback user
    scopes,      \* the stores asyncLocalStorage.run was given, one per scope
    san,         \* a SanitizeFilter, a value given to sanitize and what came back
    ntc,         \* an error given to createNotice, the Notice and its payload
    fac,         \* the globals of the façade, its suspended calls and its last call
    web,         \* the request a framework adapter is handling
    tmr,         \* a timer of the Worker or the Client and what its delay is made of
    pipe         \* history: the notices notify handed on and the call of flush

workerVars == <<queue, processing, shutdown, throttle, loops, inFlight, flushes,
                stopper, tracking, pushes, sent, attempts, completed, lastOk, kfail>>

\* the variables that are not the Worker's, and those that are not the Client's
storeVars == <<globalContext, globalUser, scopes>>

notWorker == <<call, storeVars, san, ntc, fac, web, tmr, pipe>>

notClient == <<workerVars, storeVars, san, ntc, fac, web, tmr, pipe>>

notStore == <<workerVars, call, san, ntc, fac, web, tmr, pipe>>

notSanitizer == <<workerVars, call, storeVars, ntc, fac, web, tmr, pipe>>

notNotice == <<workerVars, call, storeVars, san, fac, web, tmr, pipe>>

notFacade == <<workerVars, call, storeVars, san, ntc, web, tmr, pipe>>

notAdapter == <<workerVars, call, san, ntc, tmr, pipe>>

notTimer == <<workerVars, call, storeVars, san, ntc, fac, web, pipe>>

notDelivery == <<call, storeVars, san, ntc, web, tmr>>

vars == <<workerVars, call, storeVars, san, ntc, fac, web, tmr, pipe>>

---------------------------------------------------------------------------
(* Bounds of the model and constants of the program *)

\* config.maxQueueSize (configurable; 1000 by default, 10 in the tests)
MaxQueueSize == 2

\* number of flush calls followed
MaxFlush == 1

\* number of push calls followed while the history is recorded
MaxPush == MaxQueueSize + 3

\* BASE_THROTTLE = 1.05 = BaseNum / 100
BaseNum == 105

MAX_THROTTLE == 100

PushIds == 1..MaxPush

FlushIds == 1..MaxFlush

---------------------------------------------------------------------------
(* QueueItem *)

Payload(id) == [type |-> "payload", ref |-> id]

SHUTDOWN == [type |-> "SHUTDOWN", ref |-> 0]

FLUSH(f) == [type |-> "FLUSH", ref |-> f]

NoItem == [type |-> "none", ref |-> 0]

---------------------------------------------------------------------------
(* throttleDelay: Math.round((Math.pow(BASE_THROTTLE, level) - 1) * 1000)   *)
(*                                                                         *)
(* TLC has 32-bit integers and no reals, and 1.05^100 has 200 decimals, so *)
(* BaseNum^level is kept exactly as a sequence of limbs in base 10^4,      *)
(* least significant first.  BASE_THROTTLE^level = BaseNum^level / 10^(2   *)
(* level), hence the digits of (BASE^level) * 1000 are the decimal digits  *)
(* of BaseNum^level from position 2*level - 3 up, and the digit below them *)
(* decides the rounding (Math.round rounds a half up).  For the levels     *)
(* 0..100 the IEEE doubles of the program round to the same integers: the  *)
(* only exact tie is level 2 (102.5), which the doubles compute as         *)
(* 102.50000000000003.                                                     *)

\* ds * m, from limb i on, with the carry of the limbs below
RECURSIVE MulFrom(_, _, _, _)
MulFrom(ds, m, i, carry) ==
    IF i > Len(ds)
    THEN IF carry = 0 THEN <<>> ELSE <<carry>>
    ELSE LET v == ds[i] * m + carry
         IN  <<v % 10000>> \o MulFrom(ds, m, i + 1, v \div 10000)

\* p * BaseNum^n
RECURSIVE PowSteps(_, _)
PowSteps(p, n) ==
    IF n = 0 THEN p ELSE MulFrom(PowSteps(p, n - 1), BaseNum, 1, 0)

\* BaseNum^level for level = 0, 20, 40, 60, 80, 100: each is computed once,
\* which keeps every evaluation of a power shallow
Pow20 == PowSteps(<<1>>, 20)

Pow40 == PowSteps(Pow20, 20)

Pow60 == PowSteps(Pow40, 20)

Pow80 == PowSteps(Pow60, 20)

Pow100 == PowSteps(Pow80, 20)

PowBase(n) ==
    CASE n = 0 -> <<1>> [] n = 1 -> Pow20 [] n = 2 -> Pow40
      [] n = 3 -> Pow60 [] n = 4 -> Pow80 [] OTHER -> Pow100

\* Math.pow(BASE_THROTTLE, level) * 100^level, exactly
Pow(level) == PowSteps(PowBase(level \div 20), level % 20)

Pow10(n) == CASE n = 0 -> 1 [] n = 1 -> 10 [] n = 2 -> 100 [] OTHER -> 1000

\* the decimal digit of weight 10^pos of the number ds (0 for pos < 0)
DigitAt(ds, pos) ==
    IF pos < 0 \/ (pos \div 4) + 1 > Len(ds)
    THEN 0
    ELSE (ds[(pos \div 4) + 1] \div Pow10(pos % 4)) % 10

\* the integer made of the decimal digits of ds from position pos upwards
RECURSIVE DigitsFrom(_, _)
DigitsFrom(ds, pos) ==
    IF (pos \div 4) + 1 > Len(ds)
    THEN 0
    ELSE DigitAt(ds, pos) + 10 * DigitsFrom(ds, pos + 1)

\* Math.round((x - 1) * 1000) for x = BaseNum^level / 100^level
RoundedDelay(level) ==
    LET p    == Pow(level)
        low  == 2 * level - 3
        \* below level 2 the thousandths lie under the last digit of p
        kilo == IF low < 0
                THEN DigitsFrom(p, 0) * Pow10(0 - low)
                ELSE DigitsFrom(p, low)
        up   == IF DigitAt(p, low - 1) >= 5 THEN 1 ELSE 0
    IN  kilo + up - 1000

\* the delays of the levels 0 .. MAX_THROTTLE, computed once
DelayTable == [level \in 0..MAX_THROTTLE |-> RoundedDelay(level)]

\* faulty variant: a linear backoff
ThrottleDelayLinear(level) == 50 * level

ThrottleDelay(level) == DelayTable[level]

\* faulty variant: decThrottle without Math.max
DecThrottleNoFloor(level) == level - 1

IncThrottle(level) == IF level + 1 <= MAX_THROTTLE THEN level + 1 ELSE MAX_THROTTLE

DecThrottle(level) == IF level - 1 >= 0 THEN level - 1 ELSE 0

---------------------------------------------------------------------------
(* The promises of flush and stop *)

NoFlush == [state |-> "unused", by |-> "none", timer |-> "none", before |-> {}]

\* by: what resolved the promise of stop; idle: the worker had an empty queue
\* and no drain loop when stop was called
NoStop == [state |-> "none", timer |-> "none", poll |-> FALSE, by |-> "none",
           idle |-> FALSE]

\* the notices accepted so far (push returned true)
Accepted == {i \in 1..Len(pushes) : pushes[i].ret}

\* item.resolve() of the flush markers in fs; resolving twice does nothing
ResolveMarkers(fl, fs) ==
    [f \in FlushIds |->
        IF f \in fs /\ fl[f].state = "pending"
        THEN [fl[f] EXCEPT !.state = "resolved", !.by = "marker"]
        ELSE fl[f]]

\* setTimeout(resolve, timeoutMs) fires
ResolveTimer(fl, f) ==
    IF fl[f].state = "pending"
    THEN [fl EXCEPT ![f].state = "resolved", ![f].by = "timer", ![f].timer = "fired"]
    ELSE [fl EXCEPT ![f].timer = "fired"]

---------------------------------------------------------------------------
(* Client.send: one fetch per call *)

\* faulty variant: the Transport tries a second time
ClientSendTwice(id) ==
    /\ inFlight' = inFlight + 1
    /\ sent' = IF tracking THEN Append(sent, id) ELSE sent
    /\ attempts' = IF tracking THEN [attempts EXCEPT ![id] = @ + 2] ELSE attempts

ClientSend(id) ==
    /\ inFlight' = inFlight + 1
    /\ sent' = IF tracking THEN Append(sent, id) ELSE sent
    /\ attempts' = IF tracking THEN [attempts EXCEPT ![id] = @ + 1] ELSE attempts

---------------------------------------------------------------------------
(* processQueue *)

\* faulty variant: the loop takes the newest item (pop) instead of the oldest (shift)
RECURSIVE RunLoopNewestFirst(_, _)
RunLoopNewestFirst(q, fs) ==
    IF Len(q) = 0
    THEN [queue |-> q, flushed |-> fs, item |-> NoItem]
    ELSE LET item == q[Len(q)]
             rest == SubSeq(q, 1, Len(q) - 1)
         IN  IF item.type = "SHUTDOWN"
             THEN [queue |-> rest, flushed |-> fs, item |-> NoItem]
             ELSE IF item.type = "FLUSH"
                  THEN RunLoopNewestFirst(rest, fs \cup {item.ref})
                  ELSE [queue |-> rest, flushed |-> fs, item |-> item]

\* the while loop, run from the queue q until it ends or reaches a payload:
\* the queue left, the flush markers resolved, the payload to send (or NoItem)
RECURSIVE RunLoop(_, _)
RunLoop(q, fs) ==
    IF Len(q) = 0
    THEN [queue |-> q, flushed |-> fs, item |-> NoItem]
    ELSE LET item == Head(q)
         IN  IF item.type = "SHUTDOWN"
             THEN [queue |-> Tail(q), flushed |-> fs, item |-> NoItem]
             ELSE IF item.type = "FLUSH"
                  THEN RunLoop(Tail(q), fs \cup {item.ref})
                  ELSE [queue |-> Tail(q), flushed |-> fs, item |-> item]

\* sendWithThrottle up to its first await, in a loop beside the loops others
SendWithThrottle(id, others) ==
    IF throttle > 0
    THEN /\ loops' = Append(others, [pc |-> "sleep", id |-> id, slept |-> TRUE,
                                     delay |-> ThrottleDelay(throttle)])
         /\ UNCHANGED <<inFlight, sent, attempts>>
    ELSE /\ loops' = Append(others, [pc |-> "send", id |-> id, slept |-> FALSE,
                                     delay |-> 0])
         /\ ClientSend(id)

\* the while loop and what follows it, from the queue q; proc is the value of
\* processing and fl the flush promises when the loop is (re)entered
LoopStep(q, others, proc, fl) ==
    LET r == RunLoop(q, {})
    IN  /\ queue' = r.queue
        /\ flushes' = ResolveMarkers(fl, r.flushed)
        /\ IF r.item = NoItem
           THEN /\ processing' = FALSE
                /\ loops' = others
                /\ UNCHANGED <<inFlight, sent, attempts>>
           ELSE /\ processing' = proc
                /\ SendWithThrottle(r.item.ref, others)

\* faulty variant: processQueue without its re-entrancy guard
EmptyOnly(q) == Len(q) = 0

\* the guard of processQueue: it returns at once when this holds
BusyOrEmpty(q) == processing \/ Len(q) = 0

\* a call of processQueue when the queue is q
ProcessQueue(q, fl) ==
    IF BusyOrEmpty(q)
    THEN /\ queue' = q
         /\ flushes' = fl
         /\ UNCHANGED <<processing, loops, inFlight, sent, attempts>>
    ELSE LoopStep(q, loops, TRUE, fl)

---------------------------------------------------------------------------
(* push *)

\* faulty variant: this.queue.unshift(item)
EnqueueFront(q, item) == <<item>> \o q

\* this.queue.push(item)
Enqueue(q, item) == Append(q, item)

\* faulty variant: the capacity test lets one notice too many in
QueueOverFull == Len(queue) > MaxQueueSize

QueueFull == Len(queue) >= MaxQueueSize

\* faulty variant: push without its test of shutdown
PushRejectedWhenFull == QueueFull

\* push returns false
PushRejected == shutdown \/ QueueFull

\* push calls logger.warn
PushWarns == ~shutdown /\ QueueFull

\* what a call of push leaves in the history
PushRecord == [ret |-> ~PushRejected, warned |-> PushWarns,
               stopped |-> shutdown, full |-> QueueFull]

\* push(notice) for the notice id
PushCall(id) ==
    /\ pushes' = IF tracking THEN Append(pushes, PushRecord) ELSE pushes
    /\ IF PushRejected
       THEN UNCHANGED <<queue, processing, loops, inFlight, flushes, sent, attempts>>
       ELSE ProcessQueue(Enqueue(queue, Payload(id)), flushes)
    /\ UNCHANGED <<shutdown, throttle, stopper, tracking, completed, lastOk, kfail>>

\* push is called with a new notice
Push ==
    /\ tracking => Len(pushes) < MaxPush
    /\ PushCall(IF tracking THEN Len(pushes) + 1 ELSE 0)
    /\ UNCHANGED notWorker

---------------------------------------------------------------------------
(* flush *)

\* faulty variant: flush without its timeout fallback
FlushCallNoTimer == [state |-> "pending", by |-> "none", timer |-> "none",
                     before |-> Accepted]

\* the promise and the timer of the call f of flush
FlushCall == [state |-> "pending", by |-> "none", timer |-> "armed",
              before |-> Accepted]

\* flush(timeout), the call number f
WorkerFlush(f) ==
    /\ flushes[f].state = "unused"
    /\ \A g \in FlushIds : g < f => flushes[g].state # "unused"
    /\ ProcessQueue(Enqueue(queue, FLUSH(f)), [flushes EXCEPT ![f] = FlushCall])
    /\ UNCHANGED <<shutdown, throttle, stopper, tracking, pushes, completed, lastOk, kfail>>

Flush(f) ==
    /\ WorkerFlush(f)
    /\ UNCHANGED notWorker

\* the timeout fallback of flush fires
FlushTimerFire(f) ==
    /\ flushes[f].timer = "armed"
    /\ flushes' = ResolveTimer(flushes, f)
    /\ UNCHANGED <<queue, processing, shutdown, throttle, loops, inFlight, stopper,
                   tracking, pushes, sent, attempts, completed, lastOk, kfail>>
    /\ UNCHANGED notWorker

---------------------------------------------------------------------------
(* stop and waitForDrain *)

\* the test of check() in waitForDrain
Drained(q) == Len(q) = 0 /\ ~processing

Stop ==
    /\ IF shutdown
       THEN UNCHANGED workerVars
       ELSE /\ shutdown' = TRUE
            /\ queue' = Enqueue(queue, SHUTDOWN)
            /\ stopper' = IF Drained(Enqueue(queue, SHUTDOWN))
                          THEN [state |-> "resolved", timer |-> "armed", poll |-> FALSE,
                                by |-> "drain", idle |-> Drained(queue)]
                          ELSE [state |-> "waiting", timer |-> "armed", poll |-> TRUE,
                                by |-> "none", idle |-> Drained(queue)]
            /\ UNCHANGED <<processing, throttle, loops, inFlight, flushes, tracking,
                           pushes, sent, attempts, completed, lastOk, kfail>>
    /\ UNCHANGED notWorker

\* setTimeout(check, 100) fires
PollFire ==
    /\ stopper.poll
    /\ stopper' = IF Drained(queue)
                  THEN [stopper EXCEPT !.state = "resolved", !.poll = FALSE,
                                       !.by = IF stopper.state = "waiting"
                                              THEN "drain" ELSE stopper.by]
                  ELSE stopper
    /\ UNCHANGED <<queue, processing, shutdown, throttle, loops, inFlight, flushes,
                   tracking, pushes, sent, attempts, completed, lastOk, kfail>>
    /\ UNCHANGED notWorker

\* the timer stop races waitForDrain against fires
StopTimerFire ==
    /\ stopper.timer = "armed"
    /\ stopper' = [stopper EXCEPT !.state = "resolved", !.timer = "fired",
                                 !.by = IF stopper.state = "waiting"
                                        THEN "timer" ELSE stopper.by]
    /\ UNCHANGED <<queue, processing, shutdown, throttle, loops, inFlight, flushes,
                   tracking, pushes, sent, attempts, completed, lastOk, kfail>>
    /\ UNCHANGED notWorker

---------------------------------------------------------------------------
(* The continuations of the drain loop *)

Others(i) == SubSeq(loops, 1, i - 1) \o SubSeq(loops, i + 1, Len(loops))

\* the throttle sleep of loop i ends: sendWithThrottle calls client.send
SleepDone(i) ==
    /\ loops[i].pc = "sleep"
    /\ loops' = [loops EXCEPT ![i].pc = "send"]
    /\ ClientSend(loops[i].id)
    /\ UNCHANGED <<queue, processing, shutdown, throttle, flushes, stopper,
                   tracking, pushes, completed, lastOk, kfail>>
    /\ UNCHANGED notWorker

\* the level after a send that returned a response (ok) or null
NextThrottle(ok) == IF ok THEN DecThrottle(throttle) ELSE IncThrottle(throttle)

\* the failed sends in a row since the level was 0, counted up to MAX_THROTTLE
NextKfail(ok) ==
    IF ok THEN 0
    ELSE IF throttle = 0 THEN 1
    ELSE IF kfail > 0 /\ kfail < MAX_THROTTLE THEN kfail + 1
    ELSE 0

\* client.send of loop i returns a response (ok) or null, and sendWithThrottle
\* adjusts the level
SendReturn(i, ok) ==
    /\ loops[i].pc = "send"
    /\ inFlight' = inFlight - 1
    /\ throttle' = NextThrottle(ok)
    /\ kfail' = NextKfail(ok)
    /\ lastOk' = IF ok THEN "ok" ELSE "null"
    /\ completed' = IF tracking THEN completed \cup {loops[i].id} ELSE completed
    /\ loops' = [loops EXCEPT ![i].pc = "resume"]
    /\ UNCHANGED <<queue, processing, shutdown, flushes, stopper, tracking,
                   pushes, sent, attempts>>
    /\ UNCHANGED notWorker

\* processQueue goes on after await sendWithThrottle
DrainResume(i) ==
    /\ loops[i].pc = "resume"
    /\ LoopStep(queue, Others(i), processing, flushes)
    /\ UNCHANGED <<shutdown, throttle, stopper, tracking, pushes, completed, lastOk, kfail>>
    /\ UNCHANGED notWorker

---------------------------------------------------------------------------
(* Client.send and handleResponse, one call at a time                      *)
(*                                                                         *)
(* send suspends at await fetch and, inside handleResponse, at the await   *)
(* of response.json() or response.text().  What the server and the network *)
(* do is the input: the status, what the body turns out to be, a network   *)
(* error, or nothing at all.                                               *)

\* number of calls of send followed
MaxCalls == 2

Statuses == {200, 201, 204, 302, 400, 401, 403, 404, 422, 429, 500, 503}

\* what reading the body yields: a JSON object {id, problem_id}, another JSON
\* value but null, JSON null, text that is not JSON, or a read error
BodyKinds == {"object", "value", "null", "invalid", "error"}

NoCall == [n |-> 0, pc |-> "idle", timer |-> "none", cause |-> "none",
           status |-> 0, body |-> "none", ret |-> "none", logs |-> <<>>]

\* the catch block of send: clearTimeout, one logError, return null
Caught(c, aborted) ==
    [c EXCEPT !.pc = "done", !.ret = "null",
              !.timer = IF aborted THEN "fired" ELSE "cleared",
              !.logs = Append(c.logs, IF aborted THEN "error: Request timeout"
                                      ELSE "error: Failed to send notice")]

\* faulty variant: every status but the four named ones is logged as unexpected
StatusLogNoServerError(status) ==
    CASE status = 400 -> "warn: Bad request"
      [] status = 401 -> "error: Authentication failed"
      [] status = 422 -> "warn: Invalid notice payload"
      [] status = 429 -> "warn: Rate limited"
      [] OTHER -> "error: Unexpected response"

\* the switch of handleResponse
StatusLog(status) ==
    CASE status = 400 -> "warn: Bad request"
      [] status = 401 -> "error: Authentication failed"
      [] status = 422 -> "warn: Invalid notice payload"
      [] status = 429 -> "warn: Rate limited"
      [] OTHER -> IF status >= 500 THEN "error: Server error"
                  ELSE "error: Unexpected response"

\* send up to await fetch; JSON.stringify(payload) may throw inside the try
CallSend(ser) ==
    /\ call.pc \in {"idle", "done"}
    /\ call.n < MaxCalls
    /\ call' = IF ser
               THEN [NoCall EXCEPT !.n = call.n + 1, !.pc = "fetch", !.timer = "armed"]
               ELSE Caught([NoCall EXCEPT !.n = call.n + 1, !.cause = "payload"], FALSE)
    /\ UNCHANGED notClient

\* fetch resolves with the status line and headers: clearTimeout, then
\* handleResponse up to its await of the body
FetchResolve(status) ==
    /\ call.pc = "fetch"
    /\ call.timer = "armed"
    /\ call' = [call EXCEPT !.pc = "body", !.timer = "cleared", !.cause = "response",
                            !.status = status]
    /\ UNCHANGED notClient

\* fetch rejects with a network error
FetchReject ==
    /\ call.pc = "fetch"
    /\ call.timer = "armed"
    /\ call' = Caught([call EXCEPT !.cause = "network"], FALSE)
    /\ UNCHANGED notClient

\* the timer of send fires: controller.abort()
TimerFire ==
    /\ call.timer = "armed"
    /\ call' = [call EXCEPT !.timer = "fired", !.cause = "timeout"]
    /\ UNCHANGED notClient

\* the aborted fetch rejects with an AbortError
AbortReject ==
    /\ call.pc = "fetch"
    /\ call.timer = "fired"
    /\ call' = Caught(call, TRUE)
    /\ UNCHANGED notClient

\* handleResponse after the body has been read
HandleBody(c, kind) ==
    IF c.status = 201
    THEN IF kind \in {"object", "value"}
         THEN [c EXCEPT !.pc = "done", !.body = kind, !.ret = "response",
                        !.logs = Append(c.logs, "debug: Notice sent successfully")]
         ELSE Caught([c EXCEPT !.body = kind], FALSE)
    ELSE [c EXCEPT !.pc = "done", !.body = kind, !.ret = "null",
                   !.logs = Append(c.logs, StatusLog(c.status))]

\* the body read settles
BodyDone(kind) ==
    /\ call.pc = "body"
    /\ call' = HandleBody(call, kind)
    /\ UNCHANGED notClient

ClientNext ==
    \/ \E ser \in BOOLEAN : CallSend(ser)
    \/ \E status \in Statuses : FetchResolve(status)
    \/ FetchReject
    \/ TimerFire
    \/ AbortReject
    \/ \E kind \in BodyKinds : BodyDone(kind)

---------------------------------------------------------------------------
(* The context store: globalContext, globalUser and asyncLocalStorage      *)
(*                                                                         *)
(* A scope is the callback of runWithContext or runWithContextAsync with   *)
(* everything it awaits; asyncLocalStorage.getStore() gives its code the   *)
(* store that run was called with, before and after every suspension.      *)
(* Code outside every scope is the actor 0.  The steps of the actors       *)
(* interleave freely.                                                      *)

ScopeIds == {1, 2}

Actors == {0} \cup ScopeIds

CtxKeys == {"a", "b"}

UserKeys == {"id"}

ReqKeys == {"url"}

\* the values the actor t writes under the key k: one, and two under "a"
Vals(t, k) == [w : {t}, n : IF k = "a" THEN {1, 2} ELSE {1}]

\* {}
EmptyMap == [k \in {} |-> 0]

\* the mappings over some of the keys K the actor t may pass
Args(t, K) ==
    UNION {{m \in [D -> UNION {Vals(t, k) : k \in D}] :
               \A k \in D : m[k] \in Vals(t, k)} : D \in SUBSET K \ {{}}}

\* the arguments of setContext, setUser and setRequest, per actor
CtxArgs == [t \in Actors |-> Args(t, CtxKeys)]

UserArgs == [t \in Actors |-> Args(t, UserKeys)]

ReqArgs == [t \in Actors |-> Args(t, ReqKeys)]

\* faulty variant: the spread with its operands swapped
SpreadFirstWins(a, b) ==
    [k \in DOMAIN a \cup DOMAIN b |-> IF k \in DOMAIN a THEN a[k] ELSE b[k]]

\* { ...a, ...b }
Spread(a, b) ==
    [k \in DOMAIN a \cup DOMAIN b |-> IF k \in DOMAIN b THEN b[k] ELSE a[k]]

\* faulty variant: the target is replaced by the source
ObjectReplace(target, src) == src

\* Object.assign(target, src): target afterwards
ObjectAssign(target, src) ==
    [k \in DOMAIN target \cup DOMAIN src |->
        IF k \in DOMAIN src THEN src[k] ELSE target[k]]

\* { context: {}, user: {}, request: {} }
NewStore == [state |-> "active", context |-> EmptyMap, user |-> EmptyMap,
             request |-> EmptyMap]

\* no store: run has not been called for the scope, or the scope has ended
\* and its store is out of reach
NoStore(state) == [state |-> state, context |-> EmptyMap, user |-> EmptyMap,
                   request |-> EmptyMap]

\* the actor t is running
Running(t) == IF t = 0 THEN TRUE ELSE scopes[t].state = "active"

\* faulty variant: every scope is given the store of the first scope
GetStoreShared(t) == IF t = 0 THEN 0 ELSE 1

\* asyncLocalStorage.getStore() in the code of t: 0 stands for undefined
GetStore(t) == t

\* store?.context ?? {} and store?.user ?? {}
StoreContext(t) == IF GetStore(t) = 0 THEN EmptyMap ELSE scopes[GetStore(t)].context

StoreUser(t) == IF GetStore(t) = 0 THEN EmptyMap ELSE scopes[GetStore(t)].user

GetContext(t) == Spread(globalContext, StoreContext(t))

GetUser(t) == Spread(globalUser, StoreUser(t))

\* faulty variant: clear leaves the request of the scope
ClearedKeepRequest(st) == [st EXCEPT !.context = EmptyMap, !.user = EmptyMap]

\* store.context = {}; store.user = {}; store.request = {}
Cleared(st) == [st EXCEPT !.context = EmptyMap, !.user = EmptyMap,
                          !.request = EmptyMap]

\* runWithContext and runWithContextAsync: the scope s starts with a new store
RunWithContext(s) ==
    /\ scopes[s].state = "new"
    /\ scopes' = [scopes EXCEPT ![s] = NewStore]
    /\ UNCHANGED <<globalContext, globalUser>>
    /\ UNCHANGED notStore

\* the callback of s and everything it started have finished
EndScope(s) ==
    /\ scopes[s].state = "active"
    /\ scopes' = [scopes EXCEPT ![s] = NoStore("ended")]
    /\ UNCHANGED <<globalContext, globalUser>>
    /\ UNCHANGED notStore

SetContext(t, m) ==
    /\ Running(t)
    /\ IF GetStore(t) # 0
       THEN /\ scopes' = [scopes EXCEPT ![GetStore(t)].context = ObjectAssign(@, m)]
            /\ UNCHANGED globalContext
       ELSE /\ globalContext' = Spread(globalContext, m)
            /\ UNCHANGED scopes
    /\ UNCHANGED globalUser
    /\ UNCHANGED notStore

SetUser(t, m) ==
    /\ Running(t)
    /\ IF GetStore(t) # 0
       THEN /\ scopes' = [scopes EXCEPT ![GetStore(t)].user = ObjectAssign(@, m)]
            /\ UNCHANGED globalUser
       ELSE /\ globalUser' = Spread(globalUser, m)
            /\ UNCHANGED scopes
    /\ UNCHANGED globalContext
    /\ UNCHANGED notStore

SetRequest(t, m) ==
    /\ Running(t)
    /\ scopes' = IF GetStore(t) # 0
                 THEN [scopes EXCEPT ![GetStore(t)].request = ObjectAssign(@, m)]
                 ELSE scopes
    /\ UNCHANGED <<globalContext, globalUser>>
    /\ UNCHANGED notStore

\* clear() in the code of t
ClearCall(t) ==
    IF GetStore(t) # 0
    THEN /\ scopes' = [scopes EXCEPT ![GetStore(t)] = Cleared(@)]
         /\ UNCHANGED <<globalContext, globalUser>>
    ELSE /\ globalContext' = EmptyMap
         /\ globalUser' = EmptyMap
         /\ UNCHANGED scopes

Clear(t) ==
    /\ Running(t)
    /\ ClearCall(t)
    /\ UNCHANGED notStore

StoreNext ==
    \/ \E s \in ScopeIds : RunWithContext(s)
    \/ \E s \in ScopeIds : EndScope(s)
    \/ \E t \in Actors : \E m \in CtxArgs[t] : SetContext(t, m)
    \/ \E t \in Actors : \E m \in UserArgs[t] : SetUser(t, m)
    \/ \E t \in Actors : \E m \in ReqArgs[t] : SetRequest(t, m)
    \/ \E t \in Actors : Clear(t)

InitStore ==
    /\ globalContext = EmptyMap
    /\ globalUser = EmptyMap
    /\ scopes = [s \in ScopeIds |-> NoStore("new")]

---------------------------------------------------------------------------
(* SanitizeFilter                                                          *)
(*                                                                         *)
(* A string is a sequence of slices, each the first n characters of a      *)
(* named text; "x" names a filler text without end, the other texts are    *)
(* the literals of the program.  substring(0, k) and concatenation are     *)
(* exact on such strings.  A key is a sequence of characters.              *)

TRUNCATE_LIMIT == 10000

MAX_DEPTH == 10

\* number of containers nested around the leaf of a value given to sanitize
MaxNest == 2

\* number of nested calls the call stack of the engine has room for
StackFrames == 20

TextLen == [t \in {"[FILTERED]", "[Buffer]", "...[TRUNCATED]", "john", "...",
                    "Unknown error", "Error", "TestError", "boom",
                    "ECONNRESET", "ECONNREFUSED", "ETIMEDOUT", "EPIPE",
                    "IgnoredError", "Ignored message", "UnhandledRejection",
                    "Unhandled Promise rejection", "production", "staging",
                    "development", "uncaughtException"} |->
               CASE t = "[FILTERED]" -> 10
                 [] t = "[Buffer]" -> 8
                 [] t = "...[TRUNCATED]" -> 14
                 [] t = "john" -> 4
                 [] t = "..." -> 3
                 [] t = "Unknown error" -> 13
                 [] t = "Error" -> 5
                 [] t = "TestError" -> 9
                 [] t = "boom" -> 4
                 [] t = "ECONNRESET" -> 10
                 [] t = "ECONNREFUSED" -> 12
                 [] t = "ETIMEDOUT" -> 9
                 [] t = "EPIPE" -> 5
                 [] t = "IgnoredError" -> 12
                 [] t = "Ignored message" -> 15
                 [] t = "UnhandledRejection" -> 18
                 [] t = "Unhandled Promise rejection" -> 27
                 [] t = "production" -> 10
                 [] t = "staging" -> 7
                 [] t = "development" -> 11
                 [] t = "uncaughtException" -> 17]

Lit(t) == <<[src |-> t, n |-> TextLen[t]]>>

Filler(n) == IF n = 0 THEN <<>> ELSE <<[src |-> "x", n |-> n]>>

\* str.length
RECURSIVE StrLen(_)
StrLen(s) == IF s = <<>> THEN 0 ELSE Head(s).n + StrLen(Tail(s))

\* str.substring(0, k)
RECURSIVE Substring(_, _)
Substring(s, k) ==
    IF s = <<>> \/ k <= 0 THEN <<>>
    ELSE IF Head(s).n <= k THEN <<Head(s)>> \o Substring(Tail(s), k - Head(s).n)
    ELSE <<[src |-> Head(s).src, n |-> k]>>

\* the values
Null == [kind |-> "null"]

Num(n) == [kind |-> "num", n |-> n]

Str(s) == [kind |-> "str", s |-> s]

Bool(b) == [kind |-> "bool", b |-> b]

Buf == [kind |-> "buf"]

Date == [kind |-> "date"]

Arr(items) == [kind |-> "arr", items |-> items]

Obj(fields) == [kind |-> "obj", fields |-> fields]

\* a reference to the k-th container around it: 1 is the one that holds it
Up(k) == [kind |-> "up", k |-> k]

\* the RangeError the engine throws when the call stack is exhausted
RangeError == [kind |-> "RangeError"]

FILTERED == Str(Lit("[FILTERED]"))

\* faulty variant: the last 13 characters are cut off and the marker appended
TruncateRelative(s) ==
    IF StrLen(s) <= TRUNCATE_LIMIT THEN s
    ELSE Substring(s, StrLen(s) - 13) \o Lit("...[TRUNCATED]")

\* truncateString
TruncateString(s) ==
    IF StrLen(s) <= TRUNCATE_LIMIT THEN s
    ELSE Substring(s, TRUNCATE_LIMIT - 13) \o Lit("...[TRUNCATED]")

\* toLowerCase, character by character
LowerChar(c) == CASE c = "P" -> "p" [] c = "W" -> "w" [] OTHER -> c

ToLowerCase(str) == [i \in 1..Len(str) |-> LowerChar(str[i])]

\* the characters the replace of buildPattern escapes
Special == {"."}

\* faulty variant: the keys go into the pattern as they are
Unescaped(str) == [i \in 1..Len(str) |-> [any |-> str[i] \in Special, c |-> str[i]]]

\* replace(/[.*+?^${}()|[\]\\]/g, '\\$&'): every character a literal
Escaped(str) == [i \in 1..Len(str) |-> [any |-> FALSE, c |-> str[i]]]

\* buildPattern: the alternatives of the RegExp, or /(?!)/
BuildPattern(keys) ==
    IF Len(keys) = 0 THEN [never |-> TRUE, alts |-> <<>>]
    ELSE [never |-> FALSE,
          alts |-> [i \in 1..Len(keys) |-> Escaped(ToLowerCase(keys[i]))]]

\* one atom of the pattern against one character, under the flag i
AtomMatches(atom, c) == atom.any \/ LowerChar(atom.c) = LowerChar(c)

MatchAt(alt, str, p) ==
    /\ p + Len(alt) - 1 <= Len(str)
    /\ \A i \in 1..Len(alt) : AtomMatches(alt[i], str[p + i - 1])

\* filterPattern.test(str)
Test(pattern, str) ==
    /\ ~pattern.never
    /\ \E a \in 1..Len(pattern.alts) :
          \E p \in 1..(Len(str) + 1) : MatchAt(pattern.alts[a], str, p)

\* shouldFilter
ShouldFilter(pattern, key) ==
    IF key = <<>> THEN FALSE ELSE Test(pattern, ToLowerCase(key))

\* the value a reference stands for, env being the containers around it
Target(v, env) == IF v.kind = "up" THEN env[Len(env) - v.k + 1] ELSE v

\* the containers around that value
TargetEnv(v, env) == IF v.kind = "up" THEN SubSeq(env, 1, Len(env) - v.k) ELSE env

\* deepClone of v, called with frames - 1 calls on the stack; one call per
\* element and per key, and a call for which the stack has no room throws
RECURSIVE DeepCloneIn(_, _, _)
DeepCloneIn(v, env, frames) ==
    IF frames > StackFrames THEN RangeError
    ELSE LET obj == Target(v, env)
             inner == TargetEnv(v, env) \o <<obj>>
         IN  IF obj.kind = "arr"
             THEN LET items == [i \in 1..Len(obj.items) |->
                                   DeepCloneIn(obj.items[i], inner, frames + 1)]
                  IN  IF \E i \in 1..Len(items) : items[i] = RangeError
                      THEN RangeError ELSE Arr(items)
             ELSE IF obj.kind = "obj"
             THEN LET fields == [i \in 1..Len(obj.fields) |->
                                    [key |-> obj.fields[i].key,
                                     val |-> DeepCloneIn(obj.fields[i].val,
                                                         inner, frames + 1)]]
                  IN  IF \E i \in 1..Len(fields) : fields[i].val = RangeError
                      THEN RangeError ELSE Obj(fields)
             ELSE obj

\* deepClone
DeepClone(v) == DeepCloneIn(v, <<>>, 1)

RECURSIVE Process(_, _, _)

\* faulty variant: an array is returned as it is
ProcessArrayAsIs(pattern, v, depth) == v

\* obj.map((item) => this.process(item, depth + 1))
ProcessArray(pattern, v, depth) ==
    Arr([i \in 1..Len(v.items) |-> Process(pattern, v.items[i], depth + 1)])

\* processObject
ProcessObject(pattern, v, depth) ==
    Obj([i \in 1..Len(v.fields) |->
            [key |-> v.fields[i].key,
             val |-> IF ShouldFilter(pattern, v.fields[i].key) THEN FILTERED
                     ELSE Process(pattern, v.fields[i].val, depth + 1)]])

\* faulty variant: the values at the bound are replaced as well
TooDeepAtBound(depth) == depth >= MAX_DEPTH

\* depth > MAX_DEPTH
TooDeep(depth) == depth > MAX_DEPTH

\* process; a Date is an object without keys of its own
Process(pattern, v, depth) ==
    IF TooDeep(depth) THEN FILTERED
    ELSE IF v.kind = "null" THEN v
    ELSE IF v.kind = "arr" THEN ProcessArray(pattern, v, depth)
    ELSE IF v.kind = "buf" THEN Str(Lit("[Buffer]"))
    ELSE IF v.kind = "obj" THEN ProcessObject(pattern, v, depth)
    ELSE IF v.kind = "date" THEN Obj(<<>>)
    ELSE IF v.kind = "str" THEN Str(TruncateString(v.s))
    ELSE v

\* sanitize, of the filter built from keys; what deepClone throws, it throws
SanitizeValue(keys, v) ==
    LET clone == DeepClone(v)
    IN  IF clone = RangeError THEN RangeError
        ELSE Process(BuildPattern(keys), clone, 0)

\* the keys of the mappings given to sanitize
Keys == {<<"p", "w">>, <<"P", "w">>, <<"x", "p", "w">>, <<"p", "x", "w">>,
         <<"p", ".", "w">>, <<>>}

\* the filter-key lists a SanitizeFilter is built from
FilterLists == {<<>>, << <<"p", "w">> >>, << <<"P", "W">> >>,
                << <<"p", ".", "w">> >>, << <<"w", "w">>, <<"p", "x">> >>}

StrLens == {TRUNCATE_LIMIT - 14, TRUNCATE_LIMIT - 13, TRUNCATE_LIMIT,
            TRUNCATE_LIMIT + 1, TRUNCATE_LIMIT + 5000}

Leaves ==
    {Null, Num(1), Buf, Date, FILTERED, Str(Lit("[Buffer]")), Str(Lit("john"))}
    \cup {Str(Filler(n)) : n \in StrLens}
    \cup {Str(Filler(n) \o Lit("...[TRUNCATED]")) :
              n \in {TRUNCATE_LIMIT - 14, TRUNCATE_LIMIT - 13}}

\* v inside one more array or mapping
Wrapped(v) ==
    {Arr(<<Num(1), v>>)} \cup {Obj(<<[key |-> k, val |-> v]>>) : k \in Keys}

\* the leaves inside at most n containers
RECURSIVE Nested(_)
Nested(n) ==
    IF n = 0 THEN Leaves
    ELSE Nested(n - 1) \cup UNION {Wrapped(v) : v \in Nested(n - 1)}

\* v inside d mappings, each under a key no filter list matches
RECURSIVE Padded(_, _)
Padded(v, d) ==
    IF d = 0 THEN v ELSE Obj(<<[key |-> <<"x">>, val |-> Padded(v, d - 1)]>>)

PadDepths == {0, MAX_DEPTH - 1, MAX_DEPTH}

\* values that hold themselves, one of them under a key that is filtered
Cyclic == {Obj(<<[key |-> <<"x">>, val |-> Up(1)]>>),
           Arr(<<Num(1), Up(1)>>),
           Obj(<<[key |-> <<"x">>,
                  val |-> Obj(<<[key |-> <<"p", "w">>, val |-> Up(2)]>>)]>>)}

\* a value without cycle, nested as deep as the call stack has frames
TooDeepForStack == Padded(Null, StackFrames)

Inputs ==
    {Padded(v, d) : v \in Nested(MaxNest), d \in PadDepths}
    \cup Cyclic \cup {TooDeepForStack}

NoSan == [pc |-> "none", keys |-> <<>>, input |-> Null, out |-> Null, again |-> Null]

\* sanitize(input): it returns a value or throws
Sanitize ==
    /\ san.pc = "input"
    /\ LET out == SanitizeValue(san.keys, san.input)
       IN  san' = [san EXCEPT !.pc = IF out = RangeError THEN "thrown" ELSE "once",
                              !.out = out]
    /\ UNCHANGED notSanitizer

\* sanitize(sanitize(input))
SanitizeAgain ==
    /\ san.pc = "once"
    /\ LET again == SanitizeValue(san.keys, san.out)
       IN  san' = [san EXCEPT !.pc = IF again = RangeError THEN "thrown" ELSE "twice",
                              !.again = again]
    /\ UNCHANGED notSanitizer

SanitizerNext == Sanitize \/ SanitizeAgain

---------------------------------------------------------------------------
(* createNotice and toPayload                                              *)
(*                                                                         *)
(* The message of an error is a string of slices, as in the SanitizeFilter.*)
(* The text of a stack trace is kept character by character, a line feed   *)
(* between the lines, so that split, trim, startsWith and replace are      *)
(* computed on the characters.  The context, request and user of a Notice  *)
(* are mappings as the SanitizeFilter returns them.                        *)

MAX_BACKTRACE_LINES == 100

MAX_MESSAGE_LENGTH == 10000

Undefined == [kind |-> "undefined"]

\* a string or undefined taken as a condition
Falsy(v) == v.kind = "undefined" \/ v.s = <<>>

\* v || d
OrElse(v, d) == IF Falsy(v) THEN d ELSE v

\* v ?? d
Nullish(v, d) == IF v.kind = "undefined" THEN d ELSE v

\* faulty variant: the ellipsis is appended to the first MAX_MESSAGE_LENGTH
\* characters
TruncateMessageLate(message) ==
    IF message = <<>> THEN <<>>
    ELSE IF StrLen(message) <= MAX_MESSAGE_LENGTH THEN message
    ELSE Substring(message, MAX_MESSAGE_LENGTH) \o Lit("...")

\* truncateMessage
TruncateMessage(message) ==
    IF message = <<>> THEN <<>>
    ELSE IF StrLen(message) <= MAX_MESSAGE_LENGTH THEN message
    ELSE Substring(message, MAX_MESSAGE_LENGTH - 3) \o Lit("...")

\* stack.split('\n'): the pieces between the line feeds, in order
Split(text) ==
    LET starts == {1} \cup {i + 1 : i \in {j \in 1..Len(text) : text[j] = "\n"}}
        count == Cardinality(starts)
        rank == [p \in starts |-> Cardinality({q \in starts : q < p})]
        startOf == [k \in 1..count |-> CHOOSE p \in starts : rank[p] = k - 1]
    IN  [k \in 1..count |->
            SubSeq(text, startOf[k],
                   IF k = count THEN Len(text) ELSE startOf[k + 1] - 2)]

WhiteSpace == {" ", "\t"}

\* line.trim()
RECURSIVE Trim(_)
Trim(line) ==
    IF line = <<>> THEN line
    ELSE IF Head(line) \in WhiteSpace THEN Trim(Tail(line))
    ELSE IF line[Len(line)] \in WhiteSpace THEN Trim(SubSeq(line, 1, Len(line) - 1))
    ELSE line

\* trimmed.startsWith(prefix)
StartsWith(line, prefix) ==
    Len(line) >= Len(prefix) /\ SubSeq(line, 1, Len(prefix)) = prefix

\* the places of line where pattern occurs
Occurrences(line, pattern) ==
    {p \in 1..(Len(line) - Len(pattern) + 1) :
        SubSeq(line, p, p + Len(pattern) - 1) = pattern}

\* line.replace(pattern, by), pattern a string: the first occurrence only
Replace(line, pattern, by) ==
    LET found == Occurrences(line, pattern)
    IN  IF found = {} THEN line
        ELSE LET p == CHOOSE i \in found : \A j \in found : i <= j
             IN  SubSeq(line, 1, p - 1) \o by \o SubSeq(line, p + Len(pattern), Len(line))

PROJECT_ROOT == <<"[PROJECT_ROOT]">>

\* cleanBacktraceLine
CleanBacktraceLine(line, rootPath) ==
    IF Falsy(rootPath) THEN line ELSE Replace(line, rootPath.s, PROJECT_ROOT)

\* the line is a stack-frame line
IsFrame(line) == StartsWith(Trim(line), <<"a", "t", " ">>)

\* frames.slice(0, MAX_BACKTRACE_LINES)
Slice(frames) ==
    IF Len(frames) <= MAX_BACKTRACE_LINES THEN frames
    ELSE SubSeq(frames, 1, MAX_BACKTRACE_LINES)

\* parseBacktrace
ParseBacktrace(stack, rootPath) ==
    IF Falsy(stack) THEN <<>>
    ELSE LET frames == SelectSeq(Split(stack.s), IsFrame)
         IN  Slice([i \in 1..Len(frames) |->
                       CleanBacktraceLine(Trim(frames[i]), rootPath)])

\* createNotice; the clock gave now
CreateNotice(error, options, now) ==
    [errorClass |-> OrElse(error.name, Str(Lit("Error"))),
     message |-> Str(TruncateMessage(OrElse(error.message, Str(Lit("Unknown error"))).s)),
     backtrace |-> ParseBacktrace(error.stack, options.rootPath),
     fingerprint |-> options.fingerprint,
     tags |-> Nullish(options.tags, Arr(<<>>)),
     context |-> Nullish(options.context, Obj(<<>>)),
     request |-> Nullish(options.request, Obj(<<>>)),
     user |-> Nullish(options.user, Obj(<<>>)),
     environment |-> options.environment,
     occurredAt |-> now,
     appName |-> options.appName,
     revision |-> options.revision]

\* the mapping has the key
HasKey(obj, key) == \E i \in 1..Len(obj.fields) : obj.fields[i].key = key

\* obj[key]
ValueOf(obj, key) ==
    obj.fields[CHOOSE i \in 1..Len(obj.fields) : obj.fields[i].key = key].val

\* faulty variant: the values of the first operand are kept
SpreadObjFirstWins(a, b) ==
    Obj(a.fields \o SelectSeq(b.fields, LAMBDA f : ~HasKey(a, f.key)))

\* { ...a, ...b } of two mappings: a key keeps the place it had in a
SpreadObj(a, b) ==
    Obj([i \in 1..Len(a.fields) |->
            IF HasKey(b, a.fields[i].key)
            THEN [key |-> a.fields[i].key, val |-> ValueOf(b, a.fields[i].key)]
            ELSE a.fields[i]]
        \o SelectSeq(b.fields, LAMBDA f : ~HasKey(a, f.key)))

\* value ? { key: value } : {}
IfSet(key, value) ==
    IF Falsy(value) THEN Obj(<<>>) ELSE Obj(<<[key |-> <<key>>, val |-> value]>>)

\* faulty variant: the tag list goes into the payload as it is
TagsAlways(tags) == tags

\* notice.tags.length > 0 ? notice.tags : undefined
TagsOrUndefined(tags) == IF Len(tags.items) > 0 THEN tags ELSE Undefined

\* toPayload
ToPayload(notice) ==
    [error |-> [class |-> notice.errorClass,
                message |-> notice.message,
                backtrace |-> notice.backtrace,
                occurred_at |-> notice.occurredAt,
                fingerprint |-> notice.fingerprint,
                tags |-> TagsOrUndefined(notice.tags)],
     context |-> SpreadObj(SpreadObj(SpreadObj(notice.context,
                     IfSet("environment", notice.environment)),
                     IfSet("app_name", notice.appName)),
                     IfSet("revision", notice.revision)),
     request |-> notice.request,
     user |-> notice.user,
     notifier |-> [name |-> "@checkend/node", version |-> "VERSION",
                   language |-> "javascript",
                   language_version |-> "process.version"]]

\* the root path of the project, as configured
RootChars == <<"/", "p">>

\* the decimal digits of n
RECURSIVE Decimal(_)
Decimal(n) ==
    LET digit == <<"0", "1", "2", "3", "4", "5", "6", "7", "8", "9">>[(n % 10) + 1]
    IN  IF n < 10 THEN <<digit>> ELSE Decimal(n \div 10) \o <<digit>>

\* the i-th frame line of a stack trace, with i for its line number; the
\* root path is in it once or twice
FrameLine(i, twice) ==
    <<" ", " ", "a", "t", " ">> \o RootChars \o <<"/", "a">>
    \o (IF twice THEN RootChars ELSE <<>>) \o <<":">> \o Decimal(i)

\* a line that is no frame line though it holds the marker of one
OtherLine == <<" ", "x", " ", "a", "t", " ", "y">>

\* the frame lines i..n, each after a line feed, another line after the first
RECURSIVE FrameLines(_, _, _, _)
FrameLines(i, n, other, twice) ==
    IF i > n THEN <<>>
    ELSE IF i = n
    THEN <<"\n">> \o FrameLine(i, twice)
         \o (IF other /\ i = 1 THEN <<"\n">> \o OtherLine ELSE <<>>)
    ELSE FrameLines(i, (i + n) \div 2, other, twice)
         \o FrameLines((i + n) \div 2 + 1, n, other, twice)

\* error.stack: the line of the message and n frame lines
StackOf(n, other, twice) ==
    Str(<<"E", ":", " ", "a", "t", " ", "x">> \o FrameLines(1, n, other, twice))

FrameCounts ==
    {0, 1, 2, MAX_BACKTRACE_LINES - 1, MAX_BACKTRACE_LINES, MAX_BACKTRACE_LINES + 1}

Stacks ==
    {Undefined, Str(<<>>)}
    \cup {StackOf(n, o, t) : n \in FrameCounts, o \in BOOLEAN, t \in BOOLEAN}

Names == {Undefined, Str(<<>>), Str(Lit("TestError"))}

Messages ==
    {Undefined, Str(<<>>), Str(Lit("boom"))}
    \cup {Str(Filler(n)) : n \in {MAX_MESSAGE_LENGTH - 3, MAX_MESSAGE_LENGTH,
                                  MAX_MESSAGE_LENGTH + 1, MAX_MESSAGE_LENGTH + 5000}}

TagLists == {Undefined, Arr(<<>>), Arr(<<"checkout", "payment">>)}

Contexts ==
    {Undefined,
     Obj(<<[key |-> <<"environment">>, val |-> Num(1)],
           [key |-> <<"orderId">>, val |-> Num(1)]>>)}

NoOptions ==
    [context |-> Undefined, request |-> Undefined, user |-> Undefined,
     fingerprint |-> Undefined, tags |-> Undefined, environment |-> Undefined,
     rootPath |-> Undefined, appName |-> Undefined, revision |-> Undefined]

\* the environment, the application name and the revision: unset, set, empty
Deployments ==
    {NoOptions,
     [NoOptions EXCEPT !.environment = Str(Lit("john")), !.appName = Str(Lit("john")),
                       !.revision = Str(Lit("john")), !.fingerprint = Str(Lit("john"))],
     [NoOptions EXCEPT !.environment = Str(<<>>), !.revision = Str(Lit("john"))]}

\* the errors and options createNotice is followed on: every kind of name,
\* message, tag list and context with a short stack trace, and every stack
\* trace with and without a root path, under a short and a long message
NoticeInputs ==
    {[error |-> [name |-> nm, message |-> msg, stack |-> StackOf(2, FALSE, FALSE)],
      options |-> [d EXCEPT !.tags = tg, !.context = cx]] :
         nm \in Names, msg \in Messages, tg \in TagLists, cx \in Contexts,
         d \in Deployments}
    \cup
    {[error |-> [name |-> Undefined, message |-> msg, stack |-> st],
      options |-> [NoOptions EXCEPT !.rootPath = rp]] :
         msg \in {Str(Lit("boom")), Str(Filler(MAX_MESSAGE_LENGTH + 5000))},
         st \in Stacks, rp \in {Undefined, Str(<<>>), Str(RootChars)}}

NoNotice == [pc |-> "none", error |-> Null, options |-> Null, notice |-> Null,
             payload |-> Null]

\* createNotice(error, options)
Create ==
    /\ ntc.pc = "input"
    /\ ntc' = [ntc EXCEPT !.pc = "created",
                          !.notice = CreateNotice(ntc.error, ntc.options, "now")]
    /\ UNCHANGED notNotice

\* toPayload(notice)
Convert ==
    /\ ntc.pc = "created"
    /\ ntc' = [ntc EXCEPT !.pc = "payload", !.payload = ToPayload(ntc.notice)]
    /\ UNCHANGED notNotice

NoticeNext == Create \/ Convert

---------------------------------------------------------------------------
(* The façade: configure, stop, reset, notify, notifySync and the handlers  *)
(* of uncaughtException and unhandledRejection                             *)
(*                                                                         *)
(* configure, notify and the two handlers run to completion; stop suspends *)
(* at the await of worker.stop and reset at the await of stop, and what    *)
(* follows the await is an action of its own.  notify and notifySync are   *)
(* called by an actor of the context store: by code outside every scope,   *)
(* where getLocalStorage gives the empty triple, or by the code of a scope.*)
(* CHECKEND_API_KEY and the other variables of the environment are unset.  *)

\* number of stop and reset calls followed while they are suspended
MaxPending == 1

Text(t) == Str(Lit(t))

\* an ignore pattern that is a string
IgnoreString(t) == [kind |-> "string", s |-> Text(t)]

\* an ignore pattern that is a RegExp without the flags g and y, given by
\* the strings it matches
IgnoreRegExp(matched) == [kind |-> "regexp", matched |-> matched]

DEFAULT_IGNORED_EXCEPTIONS ==
    <<IgnoreString("ECONNRESET"), IgnoreString("ECONNREFUSED"),
      IgnoreString("ETIMEDOUT"), IgnoreString("EPIPE")>>

\* config.filterKeys, one key standing for the default keys
FilterKeys == << <<"p", "w">> >>

\* new Configuration(options)
Configuration(options) ==
    [kind |-> "config",
     apiKey |-> options.apiKey,
     environment |-> options.environment,
     enabledOption |-> options.enabled,
     ignoredExceptions |-> DEFAULT_IGNORED_EXCEPTIONS \o options.ignoredExceptions,
     filterKeys |-> FilterKeys \o options.filterKeys,
     beforeNotify |-> options.beforeNotify,
     captureUncaughtExceptions |-> TRUE,
     captureUnhandledRejections |-> TRUE,
     async |-> options.async,
     rootPath |-> Str(RootChars),
     sendRequestData |-> TRUE,
     sendEnvironmentData |-> FALSE,
     sendUserData |-> options.sendUserData # "false"]

NoConfig == [kind |-> "null"]

\* config.isValid(): the endpoint has a default
IsValid(config) == config.apiKey # ""

\* config.enabled
Enabled(config) ==
    IF config.enabledOption # "undefined" THEN config.enabledOption = "true"
    ELSE config.environment \in {"production", "staging"}

\* pattern.test(str)
RegExpTest(pattern, str) == str \in pattern.matched

\* config.shouldIgnore
ShouldIgnore(config, errorClass, message, code) ==
    \E i \in 1..Len(config.ignoredExceptions) :
        LET pattern == config.ignoredExceptions[i]
        IN  IF pattern.kind = "string"
            THEN errorClass = pattern.s \/ message = pattern.s \/ code = pattern.s
            ELSE \/ RegExpTest(pattern, errorClass)
                 \/ RegExpTest(pattern, message)
                 \/ (~Falsy(code) /\ RegExpTest(pattern, code))

\* faulty variant: the enabled flag is not looked at
ShouldNotifyValid(f) ==
    IF ~f.started \/ f.config = NoConfig \/ ~f.client THEN FALSE
    ELSE IsValid(f.config)

\* shouldNotify
ShouldNotify(f) ==
    IF ~f.started \/ f.config = NoConfig \/ ~f.client THEN FALSE
    ELSE IF ~IsValid(f.config) THEN FALSE
    ELSE Enabled(f.config)

\* faulty variant: every result that is not truthy blocks the notice
VetoesFalsy(result) == result \in {"false", "undefined"}

\* result === false
Vetoes(result) == result = "false"

Log(level, text) == [level |-> level, text |-> text]

\* runBeforeNotifyCallbacks, from the i-th callback on: whether the notice
\* passed, the callbacks called and what was logged.  A callback is what it
\* does when called: it returns true, false, undefined or a promise, or it
\* throws.
RECURSIVE RunCallbacksFrom(_, _)
RunCallbacksFrom(callbacks, i) ==
    IF i > Len(callbacks) THEN [ok |-> TRUE, ran |-> <<>>, logs |-> <<>>]
    ELSE IF callbacks[i] # "throws" /\ Vetoes(callbacks[i])
    THEN [ok |-> FALSE, ran |-> <<i>>,
          logs |-> <<Log("debug", "Notice blocked by beforeNotify callback")>>]
    ELSE LET rest == RunCallbacksFrom(callbacks, i + 1)
         IN  [ok |-> rest.ok, ran |-> <<i>> \o rest.ran,
              logs |-> (IF callbacks[i] = "throws"
                        THEN <<Log("warn", "beforeNotify callback failed")>>
                        ELSE <<>>) \o rest.logs]

RunBeforeNotifyCallbacks(f) ==
    IF f.config = NoConfig THEN [ok |-> TRUE, ran |-> <<>>, logs |-> <<>>]
    ELSE RunCallbacksFrom(f.config.beforeNotify, 1)

\* sendNotice: the calls of worker.push and client.sendNotice it makes
SendNotice(f, notice) ==
    IF f.worker # "null" THEN <<[via |-> "push", notice |-> notice]>>
    ELSE IF f.client THEN <<[via |-> "send", notice |-> notice]>>
    ELSE <<>>

\* client?.sendNotice(notice)
ClientSendNotice(f, notice) ==
    IF f.client THEN <<[via |-> "send", notice |-> notice]>> ELSE <<>>

\* faulty variant: the data is handed on as it is
FacadeSanitizeNone(f, data) == data

\* sanitize of the façade
FacadeSanitize(f, data) ==
    IF f.sanitizeFilter THEN SanitizeValue(f.config.filterKeys, data) ELSE data

\* a mapping of the context store as the SanitizeFilter takes it: its keys
\* in the order of insertion, the values of different writers different
\* numbers
AsObj(m) ==
    LET present == SelectSeq(<<"a", "b", "id", "url">>, LAMBDA k : k \in DOMAIN m)
    IN  Obj([i \in 1..Len(present) |->
                [key |-> <<present[i]>>,
                 val |-> Num(10 * m[present[i]].w + m[present[i]].n)]])

\* getLocalStorage() in the code of t
LocalStorage(t) ==
    IF GetStore(t) = 0
    THEN [context |-> EmptyMap, user |-> EmptyMap, request |-> EmptyMap]
    ELSE [context |-> scopes[GetStore(t)].context, user |-> scopes[GetStore(t)].user,
          request |-> scopes[GetStore(t)].request]

\* globalContext and globalUser
GlobalData == [context |-> globalContext, user |-> globalUser]

\* process.env
ProcessEnv == Obj(<<[key |-> <<"p", "w">>, val |-> Text("john")]>>)

\* ...x for an x that may be undefined
Spreadable(x) == Nullish(x, Obj(<<>>))

\* the context, user and request notify and notifySync make of the process-
\* wide data, the triple of getLocalStorage() and the options of the call
\* and give to createNotice, or the RangeError sanitize threw
MergedData(f, global, local, options) ==
    LET contextData ==
            SpreadObj(SpreadObj(AsObj(global.context), AsObj(local.context)),
                      Spreadable(options.context))
        env == IF f.config.sendEnvironmentData
               THEN FacadeSanitize(f, ProcessEnv) ELSE Obj(<<>>)
        context ==
            IF env = RangeError THEN RangeError
            ELSE FacadeSanitize(f,
                     IF f.config.sendEnvironmentData
                     THEN SpreadObj(contextData, Obj(<<[key |-> <<"env">>, val |-> env]>>))
                     ELSE contextData)
        user == IF f.config.sendUserData
                THEN FacadeSanitize(f,
                         SpreadObj(SpreadObj(AsObj(global.user), AsObj(local.user)),
                                   Spreadable(options.user)))
                ELSE Obj(<<>>)
        request == IF f.config.sendRequestData
                   THEN FacadeSanitize(f,
                            SpreadObj(AsObj(local.request),
                                      Spreadable(options.request)))
                   ELSE Obj(<<>>)
    IN  IF context = RangeError \/ user = RangeError \/ request = RangeError
        THEN RangeError
        ELSE [context |-> context, user |-> user, request |-> request]

\* the options notify, notifySync and the handlers give to createNotice
NoticeOptions(f, data, fingerprint, tags) ==
    [context |-> data.context, request |-> data.request, user |-> data.user,
     fingerprint |-> fingerprint, tags |-> tags,
     environment |-> Text(f.config.environment), rootPath |-> f.config.rootPath,
     appName |-> Undefined, revision |-> Undefined]

\* what is kept of a call of the façade
NoCallYet == [entry |-> "none", error |-> Null, stage |-> "none",
              outcome |-> "returned", ran |-> <<>>, logs |-> <<>>, handed |-> <<>>,
              original |-> FALSE, source |-> Null]

\* what notify and notifySync read when called: the process-wide data, the
\* triple of the caller and the options
SourceOf(t, options) ==
    [actor |-> t, global |-> GlobalData, local |-> LocalStorage(t), options |-> options]

CallOf(entry, error, stage) ==
    [NoCallYet EXCEPT !.entry = entry, !.error = error, !.stage = stage]

\* notify and notifySync from the sanitizing on; an exception leaves notify
\* as it is and rejects the promise of notifySync
BuildAndSend(f, src, entry, error) ==
    LET data == MergedData(f, src.global, src.local, src.options)
        options == src.options
    IN  IF data = RangeError
        THEN [CallOf(entry, error, "sanitize") EXCEPT
                 !.outcome = IF entry = "notifySync" THEN "rejected" ELSE "thrown"]
        ELSE LET notice == CreateNotice(error,
                               NoticeOptions(f, data, options.fingerprint, options.tags),
                               "now")
                 run == RunBeforeNotifyCallbacks(f)
             IN  IF ~run.ok
                 THEN [CallOf(entry, error, "blocked") EXCEPT
                          !.ran = run.ran, !.logs = run.logs]
                 ELSE [CallOf(entry, error, "sent") EXCEPT
                          !.ran = run.ran, !.logs = run.logs,
                          !.source = src,
                          !.handed = IF entry = "notifySync"
                                     THEN ClientSendNotice(f, notice)
                                     ELSE SendNotice(f, notice)]

\* notify in the code of t
NotifyCall(f, t, error, options) ==
    IF ~ShouldNotify(f) THEN CallOf("notify", error, "inert")
    ELSE IF ShouldIgnore(f.config, OrElse(error.name, Text("Error")),
                         OrElse(error.message, Text("Unknown error")), error.code)
    THEN [CallOf("notify", error, "ignored") EXCEPT
             !.logs = <<Log("debug", "Ignoring error")>>]
    ELSE BuildAndSend(f, SourceOf(t, options), "notify", error)

\* notifySync in the code of t
NotifySyncCall(f, t, error, options) ==
    IF ~ShouldNotify(f) THEN CallOf("notifySync", error, "inert")
    ELSE BuildAndSend(f, SourceOf(t, options), "notifySync", error)

\* originalUncaughtExceptionHandler or originalUnhandledRejectionHandler
OriginalHandler(f, entry) ==
    IF entry = "uncaughtException" THEN f.originalUncaughtExceptionHandler
    ELSE f.originalUnhandledRejectionHandler

\* the two handlers from the ignore test on; original: the handler saved at
\* the installation was called at the end
HandlerCall(f, entry, error, extra, tags) ==
    IF ShouldIgnore(f.config, error.name, error.message, error.code)
    THEN CallOf(entry, error, "ignored")
    ELSE LET context == FacadeSanitize(f, SpreadObj(AsObj(globalContext), extra))
         IN  IF context = RangeError
             THEN [CallOf(entry, error, "sanitize") EXCEPT !.outcome = "thrown"]
             ELSE LET notice ==
                          CreateNotice(error,
                              NoticeOptions(f, [context |-> context, request |-> Undefined,
                                                user |-> Undefined], Undefined, tags),
                              "now")
                  IN  [CallOf(entry, error, "sent") EXCEPT
                          !.handed = IF entry = "uncaughtException"
                                     THEN ClientSendNotice(f, notice)
                                     ELSE SendNotice(f, notice),
                          !.original = OriginalHandler(f, entry) # "null"]

\* the Error handleUnhandledRejection makes of the reason
RejectionError(reason) ==
    IF reason.kind = "error" THEN reason
    ELSE [kind |-> "error", name |-> Text("UnhandledRejection"),
          message |-> IF reason.kind = "str" THEN reason
                      ELSE Text("Unhandled Promise rejection"),
          code |-> Undefined, stack |-> StackOf(1, FALSE, FALSE)]

\* the errors reported: one that matches no pattern, one whose class is an
\* ignored string, one without a name whose message an ignored RegExp
\* matches, and one with an ignored platform code
Errors ==
    {[kind |-> "error", name |-> nm, message |-> msg, code |-> cd,
      stack |-> StackOf(1, FALSE, FALSE)] :
        <<nm, msg, cd>> \in {<<Text("TestError"), Text("boom"), Undefined>>,
                             <<Text("IgnoredError"), Text("boom"), Undefined>>,
                             <<Str(<<>>), Text("Ignored message"), Undefined>>,
                             <<Text("TestError"), Text("boom"), Text("ECONNRESET")>>}}

\* the reasons of a rejection: an Error, a string, anything else
Reasons == Errors \cup {Text("boom"), Null}

\* ignoredExceptions of the options
IgnoreLists ==
    {<<>>,
     <<IgnoreString("IgnoredError"),
       IgnoreRegExp({Text("IgnoredError"), Text("Ignored message")})>>}

\* beforeNotify of the options
CallbackLists ==
    {<<>>, <<"false">>, <<"throws", "true">>, <<"undefined", "throws", "false", "true">>,
     <<"promise">>}

\* ignoredExceptions and beforeNotify of the options of an enabled SDK
Behaviours ==
    {<<ig, <<>> >> : ig \in IgnoreLists}
    \cup {<< <<>>, cb>> : cb \in CallbackLists}
    \cup {<<ig, <<"false">> >> : ig \in IgnoreLists}

\* the options of configure: without key; with a key, disabled by the flag
\* and by the environment, enabled by the environment, and enabled by the
\* flag with every behaviour
ConfigOptions ==
    {[apiKey |-> "", enabled |-> "true", environment |-> "production",
      async |-> a, ignoredExceptions |-> <<>>, beforeNotify |-> <<>>,
      filterKeys |-> <<>>, sendUserData |-> "undefined"] :
        a \in BOOLEAN}
    \cup
    {[apiKey |-> "key", enabled |-> en[1], environment |-> en[2], async |-> a,
      ignoredExceptions |-> <<>>, beforeNotify |-> <<"false">>,
      filterKeys |-> <<>>, sendUserData |-> "undefined"] :
        en \in {<<"false", "production">>, <<"undefined", "production">>,
                <<"undefined", "development">>},
        a \in BOOLEAN}
    \cup
    {[apiKey |-> "key", enabled |-> "true", environment |-> "development",
      async |-> a, ignoredExceptions |-> bh[1], beforeNotify |-> bh[2],
      filterKeys |-> <<>>, sendUserData |-> "undefined"] :
        a \in BOOLEAN, bh \in Behaviours}

NoNotifyOptions ==
    [context |-> Undefined, user |-> Undefined, request |-> Undefined,
     fingerprint |-> Undefined, tags |-> Undefined]

\* the options of notify and notifySync: none, a context with a key to
\* filter, a context that holds itself, a user that holds itself
NotifyOptions ==
    {NoNotifyOptions,
     [NoNotifyOptions EXCEPT
         !.context = Obj(<<[key |-> <<"p", "w">>, val |-> Text("john")]>>),
         !.tags = Arr(<<"checkout", "payment">>)],
     [NoNotifyOptions EXCEPT !.context = Obj(<<[key |-> <<"x">>, val |-> Up(1)]>>)],
     [NoNotifyOptions EXCEPT !.user = Obj(<<[key |-> <<"x">>, val |-> Up(1)]>>)]}

\* the module before configure; ready: the last configure had a key and
\* reporting enabled, and neither stop nor reset has been called since
NoFacade ==
    [config |-> NoConfig, client |-> FALSE, worker |-> "null",
     sanitizeFilter |-> FALSE, started |-> FALSE,
     uncaught |-> FALSE, rejection |-> FALSE, shutdownHooksInstalled |-> FALSE,
     host |-> FALSE, originalUncaughtExceptionHandler |-> "null",
     originalUnhandledRejectionHandler |-> "null",
     pending |-> <<>>, mode |-> "none", ready |-> FALSE, last |-> NoCallYet]

\* process.listeners(event)[0] ?? null, when the handler of the SDK is not
\* among the listeners: the listener of the host, if it has one
FirstListener(f) == IF f.host THEN "host" ELSE "null"

\* start
Started(f) ==
    IF f.started \/ f.config = NoConfig THEN f
    ELSE [f EXCEPT !.started = TRUE,
                   !.uncaught = f.config.captureUncaughtExceptions,
                   !.rejection = f.config.captureUnhandledRejections,
                   !.originalUncaughtExceptionHandler =
                       IF f.config.captureUncaughtExceptions
                       THEN FirstListener(f) ELSE @,
                   !.originalUnhandledRejectionHandler =
                       IF f.config.captureUnhandledRejections
                       THEN FirstListener(f) ELSE @,
                   !.shutdownHooksInstalled = TRUE,
                   !.last.logs = @ \o <<Log("info", "Started")>>]

\* the globals of the module after configure(options)
Configured(f, options) ==
    LET config == Configuration(options)
        called == [f EXCEPT !.config = config,
                            !.ready = IsValid(config) /\ Enabled(config),
                            !.last = CallOf("configure", Null, "done")]
    IN  IF ~IsValid(config)
        THEN [called EXCEPT
                 !.mode = "nokey",
                 !.last.logs = <<Log("warn", "Invalid configuration: apiKey is required")>>]
        ELSE Started([called EXCEPT
                 !.client = TRUE,
                 !.worker = IF config.async THEN "running" ELSE "null",
                 !.sanitizeFilter = TRUE,
                 !.mode = IF Enabled(config) THEN "ok" ELSE "disabled"])

\* configure(options)
Configure(options) ==
    /\ fac' = Configured(fac, options)
    /\ UNCHANGED notFacade

\* stop up to its await, or to its end when there is no worker
StopCall(f, op) ==
    IF ~f.started THEN f
    ELSE LET off == [f EXCEPT !.uncaught = FALSE, !.rejection = FALSE]
         IN  IF f.worker # "null"
             THEN [off EXCEPT !.worker = "stopping",
                              !.pending = Append(@, [op |-> op, at |-> "worker"])]
             ELSE [off EXCEPT !.started = FALSE, !.mode = "stopped",
                              !.last.logs = IF f.config = NoConfig THEN @
                                            ELSE @ \o <<Log("info", "Stopped")>>]

\* stop(timeout)
FacadeStop ==
    /\ Len(fac.pending) < MaxPending
    /\ fac' = StopCall([fac EXCEPT !.last = CallOf("stop", Null, "done"),
                                   !.ready = FALSE], "stop")
    /\ UNCHANGED notFacade

\* stop after worker.stop has resolved
StopResume(i) ==
    /\ fac.pending[i].at = "worker"
    /\ fac' = [fac EXCEPT
                  !.worker = "null",
                  !.started = FALSE,
                  !.mode = "stopped",
                  !.last = [CallOf(fac.pending[i].op, Null, "done") EXCEPT
                               !.logs = IF fac.config = NoConfig THEN <<>>
                                        ELSE <<Log("info", "Stopped")>>],
                  !.pending = IF fac.pending[i].op = "stop"
                              THEN SubSeq(@, 1, i - 1) \o SubSeq(@, i + 1, Len(@))
                              ELSE [@ EXCEPT ![i].at = "stopped"]]
    /\ UNCHANGED notFacade

\* reset() up to its await of stop(0)
Reset ==
    /\ Len(fac.pending) < MaxPending
    /\ LET called == [fac EXCEPT !.last = CallOf("reset", Null, "done"),
                                 !.ready = FALSE]
           stopped == StopCall(called, "reset")
       IN  fac' = IF Len(stopped.pending) > Len(fac.pending) THEN stopped
                  ELSE [stopped EXCEPT
                           !.pending = Append(@, [op |-> "reset", at |-> "stopped"])]
    /\ UNCHANGED notFacade

\* reset after stop(0) has resolved
ResetResume(i) ==
    /\ fac.pending[i].op = "reset"
    /\ fac.pending[i].at = "stopped"
    /\ fac' = [fac EXCEPT
                  !.config = NoConfig, !.client = FALSE, !.worker = "null",
                  !.sanitizeFilter = FALSE, !.mode = "reset",
                  !.last = CallOf("reset", Null, "done"),
                  !.pending = SubSeq(@, 1, i - 1) \o SubSeq(@, i + 1, Len(@))]
    /\ globalContext' = EmptyMap
    /\ globalUser' = EmptyMap
    /\ UNCHANGED <<workerVars, call, scopes, san, ntc, web, tmr, pipe>>

\* notify(error, options) in the code of t
Notify(t, error, options) ==
    /\ Running(t)
    /\ fac' = [fac EXCEPT !.last = NotifyCall(fac, t, error, options)]
    /\ UNCHANGED notFacade

\* notifySync(error, options) in the code of t
NotifySync(t, error, options) ==
    /\ Running(t)
    /\ fac' = [fac EXCEPT !.last = NotifySyncCall(fac, t, error, options)]
    /\ UNCHANGED notFacade

\* handleUncaughtException, called by the process while it is a listener
HandleUncaughtException(error) ==
    /\ fac.uncaught
    /\ fac' = [fac EXCEPT !.last =
                  IF ~ShouldNotify(fac) THEN CallOf("uncaughtException", error, "inert")
                  ELSE HandlerCall(fac, "uncaughtException", error,
                           Obj(<<[key |-> <<"unhandled">>, val |-> Bool(TRUE)],
                                 [key |-> <<"origin">>, val |-> Text("uncaughtException")]>>),
                           Arr(<<"unhandled", "uncaughtException">>))]
    /\ UNCHANGED notFacade

\* handleUnhandledRejection, called by the process while it is a listener
HandleUnhandledRejection(reason) ==
    /\ fac.rejection
    /\ fac' = [fac EXCEPT !.last =
                  IF ~ShouldNotify(fac)
                  THEN CallOf("unhandledRejection", RejectionError(reason), "inert")
                  ELSE HandlerCall(fac, "unhandledRejection", RejectionError(reason),
                           Obj(<<[key |-> <<"unhandled">>, val |-> Bool(TRUE)],
                                 [key |-> <<"rejection">>, val |-> Bool(TRUE)]>>),
                           Arr(<<"unhandled", "unhandledRejection">>))]
    /\ UNCHANGED notFacade

\* the host registers a listener of its own for uncaughtException and one
\* for unhandledRejection
HostListen ==
    /\ ~fac.host
    /\ fac' = [fac EXCEPT !.host = TRUE]
    /\ UNCHANGED notFacade

\* the options of configure the handlers are followed under
HandlerOptions ==
    {o \in ConfigOptions :
        /\ o.beforeNotify = <<>>
        /\ o.enabled \in {"true", "false"}}

\* the options of configure the merge of the data is followed under: with
\* and without a filter key of the application, with and without the user
MergeConfigs ==
    {[apiKey |-> "key", enabled |-> "true", environment |-> "development",
      async |-> a, ignoredExceptions |-> <<>>, beforeNotify |-> <<>>,
      filterKeys |-> fk, sendUserData |-> su] :
        a \in BOOLEAN, fk \in {<<>>, << <<"a">> >>}, su \in {"undefined", "false"}}

\* the options of the reports: none; a context with the key "a", at the top
\* and inside a mapping; a context, a user and a request with the other keys
MergeNotifyOptions ==
    {NoNotifyOptions,
     [NoNotifyOptions EXCEPT
         !.context = Obj(<<[key |-> <<"a">>, val |-> Num(91)],
                           [key |-> <<"c">>,
                            val |-> Obj(<<[key |-> <<"a">>, val |-> Text("john")]>>)]>>)],
     [NoNotifyOptions EXCEPT
         !.context = Obj(<<[key |-> <<"b">>, val |-> Num(92)]>>),
         !.user = Obj(<<[key |-> <<"id">>, val |-> Num(93)]>>),
         !.request = Obj(<<[key |-> <<"url">>, val |-> Num(94)]>>)]}

\* the code outside every scope and the code of one scope
MergeActors == {0, 1}

MergeError == CHOOSE error \in Errors : error.name = Text("TestError") /\ error.code = Undefined

\* the arguments of setContext the actor t passes there: one value a key
MergeCtxArgs == [t \in MergeActors |-> {m \in CtxArgs[t] : \A k \in DOMAIN m : m[k].n = 1}]

\* no report has built a notice since the last configure
Unreported == fac.last.source = Null

\* the reports with data in the context store: the store is written, then
\* the reports are made
MergeNext ==
    \/ \E options \in MergeConfigs : Configure(options)
    \/ Unreported /\ RunWithContext(1)
    \/ Unreported /\ \E t \in MergeActors : \E m \in MergeCtxArgs[t] : SetContext(t, m)
    \/ Unreported /\ \E t \in MergeActors : \E m \in UserArgs[t] : SetUser(t, m)
    \/ Unreported /\ \E m \in ReqArgs[1] : SetRequest(1, m)
    \/ \E t \in MergeActors : \E options \in MergeNotifyOptions :
           Notify(t, MergeError, options)
    \/ \E t \in MergeActors : \E options \in MergeNotifyOptions :
           NotifySync(t, MergeError, options)

---------------------------------------------------------------------------
(* The adapters: the Express requestHandler and errorHandler, the Fastify  *)
(* plugin and the Koa middleware                                           *)
(*                                                                         *)
(* An adapter handles one request at a time here, each in a scope of its   *)
(* own.  The callback the Express requestHandler gives to runWithContext   *)
(* calls next(), so the handlers of the application and the errorHandler   *)
(* run in the scope; the listener of finish runs in the context of the     *)
(* code that ended the response, which is the scope or, after a callback   *)
(* that lost it, the code outside every scope.  The callback the Fastify   *)
(* plugin gives to runWithContextAsync ends with the onRequest hook: the   *)
(* route handler, the error handler and the onResponse hook run outside    *)
(* the scope.  The Koa middleware awaits next() inside its callback.       *)

AdapterKinds == {"express", "fastify", "koa"}

NoWeb == [kind |-> "none", pc |-> "idle", scope |-> 0, error |-> FALSE,
          set |-> [context |-> EmptyMap, user |-> EmptyMap, request |-> EmptyMap]]

\* extractRequestInfo(req), the basic context and extractUser(req) of the
\* request handled in the scope s
RequestInfo(s) == [k \in ReqKeys |-> [w |-> s, n |-> 1]]

BasicContext(s) == [k \in CtxKeys |-> [w |-> s, n |-> 1]]

ExtractUser(s) == [k \in UserKeys |-> [w |-> s, n |-> 1]]

\* config?.sendRequestData !== false and config?.sendUserData !== false
SendsRequestData(f) == IF f.config = NoConfig THEN TRUE ELSE f.config.sendRequestData

SendsUserData(f) == IF f.config = NoConfig THEN TRUE ELSE f.config.sendUserData

\* the store of the scope after the callback of the adapter has set the
\* request, the context and, if the request has one, the user
AdapterStore(f, s, hasUser) ==
    [NewStore EXCEPT
        !.request = IF SendsRequestData(f) THEN ObjectAssign(@, RequestInfo(s)) ELSE @,
        !.context = ObjectAssign(@, BasicContext(s)),
        !.user = IF SendsUserData(f) /\ hasUser THEN ObjectAssign(@, ExtractUser(s))
                 ELSE @]

\* the store the code of the application and the later hooks of the adapter
\* run with: 0 for none
HandlerScope(w) == IF w.kind = "fastify" THEN 0 ELSE w.scope

\* the options the adapter gives to notify
AdapterNotifyOptions(w) ==
    [NoNotifyOptions EXCEPT
        !.tags = Arr(<<w.kind>>),
        !.request = IF w.kind = "fastify" THEN AsObj(RequestInfo(w.scope)) ELSE @]

\* a request arrives: the adapter starts a scope and sets its data
RequestStart(kind, s, hasUser) ==
    /\ web.pc = "idle"
    /\ scopes[s].state = "new"
    /\ scopes' = [scopes EXCEPT ![s] = AdapterStore(fac, s, hasUser)]
    /\ web' = [kind |-> kind, pc |-> "handling", scope |-> s, error |-> FALSE,
               set |-> [context |-> AdapterStore(fac, s, hasUser).context,
                        user |-> AdapterStore(fac, s, hasUser).user,
                        request |-> AdapterStore(fac, s, hasUser).request]]
    /\ UNCHANGED <<globalContext, globalUser, fac>>
    /\ UNCHANGED notAdapter

\* the code of the application throws: the errorHandler of Express, the
\* error handler of the Fastify plugin or the catch of the Koa middleware
\* calls notify; the Koa middleware then calls clear() in its finally
HandlerThrows(error) ==
    /\ web.pc = "handling"
    /\ fac' = [fac EXCEPT !.last = NotifyCall(fac, HandlerScope(web), error,
                                              AdapterNotifyOptions(web))]
    /\ IF web.kind = "koa"
       THEN /\ ClearCall(web.scope)
            /\ web' = [web EXCEPT !.pc = "idle", !.error = TRUE]
       ELSE /\ web' = [web EXCEPT !.pc = "failed", !.error = TRUE]
            /\ UNCHANGED <<globalContext, globalUser, scopes>>
    /\ UNCHANGED notAdapter

\* the response ends: clear() in the listener of finish of Express, called
\* in the context t; in the onResponse hook of Fastify; in the finally of
\* the Koa middleware after next() returned
ResponseEnds(t) ==
    /\ web.pc \in {"handling", "failed"}
    /\ t = IF web.kind = "express" THEN t ELSE HandlerScope(web)
    /\ ClearCall(t)
    /\ web' = [web EXCEPT !.pc = "idle"]
    /\ UNCHANGED fac
    /\ UNCHANGED notAdapter

\* the options of configure the adapters are followed under
AdapterConfigs == {o \in MergeConfigs : o.filterKeys = <<>> /\ ~o.async}

\* the application sets process-wide data and configures; requests arrive,
\* fail or not, and end
AdapterNext ==
    \/ \E options \in AdapterConfigs : Configure(options)
    \/ \E m \in MergeCtxArgs[0] : SetContext(0, m)
    \/ \E m \in UserArgs[0] : SetUser(0, m)
    \/ \E kind \in AdapterKinds : \E s \in ScopeIds : \E hasUser \in BOOLEAN :
           RequestStart(kind, s, hasUser)
    \/ HandlerThrows(MergeError)
    \/ \E t \in {0, web.scope} : ResponseEnds(t)
    \/ \E s \in ScopeIds : web.pc = "idle" /\ EndScope(s)

---------------------------------------------------------------------------
(* The timers of Worker.flush, Worker.stop and Client.send                 *)

\* options.timeout ?? 15000
DEFAULT_TIMEOUT == 15000

\* options.shutdownTimeout ?? 5
DEFAULT_SHUTDOWN_TIMEOUT == 5

\* an optional number: <<>> is undefined, <<n>> the number n
NoNumber == <<>>

\* x ?? d for an optional number x
OrDefault(x, d) == IF x = NoNumber THEN d ELSE x[1]

\* timeout and shutdownTimeout of new Configuration(options)
TimerConfig(options) ==
    [timeout |-> OrDefault(options.timeout, DEFAULT_TIMEOUT),
     shutdownTimeout |-> OrDefault(options.shutdownTimeout, DEFAULT_SHUTDOWN_TIMEOUT)]

\* timeoutMs of flush(timeout)
FlushTimeoutMs(timeout, config) == OrDefault(timeout, config.timeout) * 1000

\* timeoutMs of stop(timeout)
StopTimeoutMs(timeout, config) == OrDefault(timeout, config.shutdownTimeout) * 1000

\* the delay of the timer that aborts the fetch of Client.send
AbortDelay(config) == config.timeout

NoTimer == [pc |-> "none", op |-> "none", arg |-> NoNumber,
            options |-> [timeout |-> NoNumber, shutdownTimeout |-> NoNumber],
            delay |-> 0]

\* the operations that set a timer, the timeout they are called with, and
\* the timeout (milliseconds) and shutdownTimeout (seconds) of the options
TimerInputs ==
    {[NoTimer EXCEPT !.pc = "input", !.op = op, !.arg = arg,
                     !.options = [timeout |-> to, shutdownTimeout |-> st]] :
        op \in {"flush", "stop", "send"},
        arg \in {NoNumber, <<0>>, <<1>>, <<2>>, <<30>>},
        to \in {NoNumber, <<1>>, <<1000>>, <<15000>>, <<30000>>},
        st \in {NoNumber, <<1>>, <<5>>, <<10>>}}

\* flush(timeout) up to its setTimeout(resolve, timeoutMs)
FlushTimer ==
    /\ tmr.pc = "input" /\ tmr.op = "flush"
    /\ tmr' = [tmr EXCEPT !.pc = "armed",
                          !.delay = FlushTimeoutMs(tmr.arg, TimerConfig(tmr.options))]
    /\ UNCHANGED notTimer

\* stop(timeout) up to its setTimeout(resolve, timeoutMs)
StopTimer ==
    /\ tmr.pc = "input" /\ tmr.op = "stop"
    /\ tmr' = [tmr EXCEPT !.pc = "armed",
                          !.delay = StopTimeoutMs(tmr.arg, TimerConfig(tmr.options))]
    /\ UNCHANGED notTimer

\* send(payload) up to its setTimeout(() => controller.abort(), ...)
AbortTimer ==
    /\ tmr.pc = "input" /\ tmr.op = "send"
    /\ tmr' = [tmr EXCEPT !.pc = "armed", !.delay = AbortDelay(TimerConfig(tmr.options))]
    /\ UNCHANGED notTimer

TimerNext == FlushTimer \/ StopTimer \/ AbortTimer

---------------------------------------------------------------------------
(* The façade on its Worker and its Client: configure, notify and flush    *)
(*                                                                         *)
(* The Worker of the variables above is the one the variable worker of the *)
(* façade refers to.  configure makes a new Worker and a new Client; the   *)
(* Worker it replaces goes on with its loop, and of it the model keeps the *)
(* notices it has not attempted to the end.  The configure calls followed  *)
(* are those made before flush is called.                                  *)

\* built: the notices sendNotice was given; accepted: those worker.push took
\* or client.sendNotice was called with; direct: the calls of
\* client.sendNotice that have not returned; orphans: the notices of the
\* Workers replaced whose attempt has not returned; flush: the call of flush
\* of the façade, the call of Worker.flush it awaits and the notices accepted
\* before it
NoPipe == [built |-> 0, accepted |-> {}, direct |-> {}, orphans |-> {},
           flush |-> [state |-> "none", f |-> 0, before |-> {}]]

\* the two modes of delivery
DeliveryConfigs ==
    {o \in MergeConfigs : o.filterKeys = <<>> /\ o.sendUserData = "undefined"}

\* the notices the Worker holds, in a loop or in its queue, whose attempt has
\* not returned
Unfinished ==
    ({loops[k].id : k \in 1..Len(loops)}
         \cup {queue[k].ref : k \in {j \in 1..Len(queue) : queue[j].type = "payload"}})
    \ completed

\* configure(options) with a key: client = new Client(config) and
\* worker = config.async ? new Worker(config) : null
ConfigureWithWorker(options) ==
    /\ pipe.flush.state = "none"
    /\ fac' = Configured(fac, options)
    /\ pipe' = [pipe EXCEPT !.orphans = @ \cup Unfinished]
    /\ queue' = <<>>
    /\ processing' = FALSE
    /\ shutdown' = FALSE
    /\ throttle' = 0
    /\ loops' = <<>>
    /\ flushes' = [f \in FlushIds |-> NoFlush]
    /\ stopper' = NoStop
    /\ lastOk' = "none"
    /\ kfail' = 0
    /\ UNCHANGED <<inFlight, tracking, pushes, sent, attempts, completed>>
    /\ UNCHANGED notDelivery

\* a Worker that was replaced attempts the notice i to the end
OrphanSends(i) ==
    /\ i \in pipe.orphans
    /\ pipe' = [pipe EXCEPT !.orphans = @ \ {i}]
    /\ completed' = completed \cup {i}
    /\ IF attempts[i] > 0
       THEN /\ inFlight' = inFlight - 1
            /\ UNCHANGED <<sent, attempts>>
       ELSE /\ sent' = Append(sent, i)
            /\ attempts' = [attempts EXCEPT ![i] = 1]
            /\ UNCHANGED inFlight
    /\ UNCHANGED <<queue, processing, shutdown, throttle, loops, flushes, stopper,
                   tracking, pushes, lastOk, kfail>>
    /\ UNCHANGED <<fac, notDelivery>>

\* notify(error) outside every scope, and sendNotice: worker.push(notice), or
\* client.sendNotice(notice) with a catch and no await
NotifyWithWorker ==
    /\ pipe.built < MaxPush
    /\ LET r == NotifyCall(fac, 0, MergeError, NoNotifyOptions)
           id == pipe.built + 1
       IN  /\ fac' = [fac EXCEPT !.last = r]
           /\ IF r.handed = <<>>
              THEN UNCHANGED <<workerVars, pipe>>
              ELSE IF r.handed[1].via = "push"
              THEN /\ PushCall(id)
                   /\ pipe' = [pipe EXCEPT
                                  !.built = id,
                                  !.accepted = IF PushRejected THEN @ ELSE @ \cup {id}]
              ELSE /\ ClientSend(id)
                   /\ pipe' = [pipe EXCEPT !.built = id,
                                           !.accepted = @ \cup {id},
                                           !.direct = @ \cup {id}]
                   /\ UNCHANGED <<queue, processing, shutdown, throttle, loops,
                                  flushes, stopper, tracking, pushes, completed,
                                  lastOk, kfail>>
    /\ UNCHANGED notDelivery

\* the promise of client.sendNotice(notice) for the notice i settles
DirectReturn(i) ==
    /\ i \in pipe.direct
    /\ pipe' = [pipe EXCEPT !.direct = @ \ {i}]
    /\ inFlight' = inFlight - 1
    /\ completed' = completed \cup {i}
    /\ UNCHANGED <<queue, processing, shutdown, throttle, loops, flushes, stopper,
                   tracking, pushes, sent, attempts, lastOk, kfail>>
    /\ UNCHANGED <<fac, notDelivery>>

\* flush() of the façade: if (worker) await worker.flush(timeout)
FlushWithWorker ==
    /\ pipe.flush.state = "none"
    /\ IF fac.worker # "null"
       THEN \E f \in FlushIds :
               /\ WorkerFlush(f)
               /\ pipe' = [pipe EXCEPT !.flush = [state |-> "pending", f |-> f,
                                                  before |-> pipe.accepted]]
       ELSE /\ pipe' = [pipe EXCEPT !.flush = [state |-> "resolved", f |-> 0,
                                               before |-> pipe.accepted]]
            /\ UNCHANGED workerVars
    /\ fac' = [fac EXCEPT !.last = CallOf("flush", Null, "done")]
    /\ UNCHANGED notDelivery

\* the promise of flush() is resolved, and not by the timer of Worker.flush
FlushedBeforeTimer ==
    \/ pipe.flush.state = "resolved"
    \/ /\ pipe.flush.state = "pending"
       /\ flushes[pipe.flush.f].state = "resolved"
       /\ flushes[pipe.flush.f].by = "marker"

DeliveryNext ==
    \/ \E options \in DeliveryConfigs : ConfigureWithWorker(options)
    \/ NotifyWithWorker
    \/ FlushWithWorker
    \/ \E i \in PushIds : DirectReturn(i)
    \/ \E i \in PushIds : OrphanSends(i)
    \/ \E f \in FlushIds : FlushTimerFire(f)
    \/ \E i \in 1..Len(loops) : SleepDone(i)
    \/ \E i \in 1..Len(loops) : \E ok \in BOOLEAN : SendReturn(i, ok)
    \/ \E i \in 1..Len(loops) : DrainResume(i)

\* the handlers with a listener of the host
HandlerNext ==
    \/ HostListen
    \/ \E options \in HandlerOptions : Configure(options)
    \/ FacadeStop
    \/ \E i \in 1..Len(fac.pending) : StopResume(i)
    \/ \E error \in Errors : HandleUncaughtException(error)
    \/ \E reason \in Reasons : HandleUnhandledRejection(reason)

FacadeNext ==
    \/ \E options \in ConfigOptions : Configure(options)
    \/ FacadeStop
    \/ \E i \in 1..Len(fac.pending) : StopResume(i)
    \/ Reset
    \/ \E i \in 1..Len(fac.pending) : ResetResume(i)
    \/ \E error \in Errors : \E options \in NotifyOptions : Notify(0, error, options)
    \/ \E error \in Errors : \E options \in NotifyOptions : NotifySync(0, error, options)
    \/ \E error \in Errors : HandleUncaughtException(error)
    \/ \E reason \in Reasons : HandleUnhandledRejection(reason)

---------------------------------------------------------------------------
(* Specifications *)

InitWorker ==
    /\ queue = <<>>
    /\ processing = FALSE
    /\ shutdown = FALSE
    /\ throttle = 0
    /\ loops = <<>>
    /\ inFlight = 0
    /\ flushes = [f \in FlushIds |-> NoFlush]
    /\ stopper = NoStop
    /\ pushes = <<>>
    /\ sent = <<>>
    /\ attempts = [i \in PushIds |-> 0]
    /\ completed = {}
    /\ lastOk = "none"
    /\ kfail = 0

\* a new Worker, its first MaxPush notices numbered and recorded
Init ==
    /\ InitWorker /\ tracking = TRUE /\ call = NoCall /\ InitStore /\ san = NoSan
    /\ ntc = NoNotice
    /\ fac = NoFacade
    /\ web = NoWeb
    /\ tmr = NoTimer
    /\ pipe = NoPipe

\* a SanitizeFilter built from one of the filter-key lists and a value for it
SanitizerInit ==
    /\ InitWorker /\ tracking = TRUE /\ call = NoCall /\ InitStore
    /\ san \in {[NoSan EXCEPT !.pc = "input", !.keys = K, !.input = v] :
                   K \in FilterLists, v \in Inputs}
    /\ ntc = NoNotice
    /\ fac = NoFacade
    /\ web = NoWeb
    /\ tmr = NoTimer
    /\ pipe = NoPipe

\* an error and the options for createNotice
NoticeInit ==
    /\ InitWorker /\ tracking = TRUE /\ call = NoCall /\ InitStore /\ san = NoSan
    /\ ntc \in {[NoNotice EXCEPT !.pc = "input", !.error = in.error,
                                 !.options = in.options] : in \in NoticeInputs}
    /\ fac = NoFacade
    /\ web = NoWeb
    /\ tmr = NoTimer
    /\ pipe = NoPipe

\* a new Worker that is pushed notices without end, none recorded
ThrottleInit ==
    /\ InitWorker /\ tracking = FALSE /\ call = NoCall /\ InitStore /\ san = NoSan
    /\ ntc = NoNotice
    /\ fac = NoFacade
    /\ web = NoWeb
    /\ tmr = NoTimer
    /\ pipe = NoPipe

Next ==
    \/ Push
    \/ \E f \in FlushIds : Flush(f)
    \/ \E f \in FlushIds : FlushTimerFire(f)
    \/ Stop
    \/ PollFire
    \/ StopTimerFire
    \/ \E i \in 1..Len(loops) : SleepDone(i)
    \/ \E i \in 1..Len(loops) : \E ok \in BOOLEAN : SendReturn(i, ok)
    \/ \E i \in 1..Len(loops) : DrainResume(i)

\* the Client alone, sending MaxCalls payloads one after the other
ClientSpec == Init /\ [][ClientNext]_vars

\* a SanitizeFilter alone, applied once and once more to what it returned
SanitizerSpec == SanitizerInit /\ [][SanitizerNext]_vars

\* createNotice and toPayload alone, on one error
NoticeSpec == NoticeInit /\ [][NoticeNext]_vars

\* the façade alone, on a worker and a client that take what they are given
FacadeSpec == Init /\ [][FacadeNext]_vars

\* the two handlers in a process whose host may have listeners of its own
HandlerSpec == Init /\ [][HandlerNext]_vars

MergeSpec == Init /\ [][MergeNext]_vars

AdapterSpec == Init /\ [][AdapterNext]_vars

\* an operation that sets a timer, its argument and the options
TimerInit ==
    /\ InitWorker /\ tracking = TRUE /\ call = NoCall /\ InitStore /\ san = NoSan
    /\ ntc = NoNotice
    /\ fac = NoFacade
    /\ web = NoWeb
    /\ tmr \in TimerInputs
    /\ pipe = NoPipe

TimerSpec == TimerInit /\ [][TimerNext]_vars

\* the façade with the Worker and the Client it hands its notices to
DeliverySpec == Init /\ [][DeliveryNext]_vars

\* the context store alone, used from outside and from the scopes
StoreSpec == Init /\ [][StoreNext]_vars

\* the timer of send fires when due and the rejection of an aborted fetch is
\* delivered; the server and the network may do nothing
ClientTimerSpec ==
    /\ Init
    /\ [][ClientNext]_vars
    /\ WF_vars(TimerFire)
    /\ WF_vars(AbortReject)

Spec == Init /\ [][Next]_vars

ThrottleSpec == ThrottleInit /\ [][Next]_vars

\* timers fire: the event loop runs every timer that is due
FlushSpec ==
    /\ Init
    /\ [][Next]_vars
    /\ \A f \in FlushIds : WF_vars(FlushTimerFire(f))

\* the Worker when every timer fires, every call of client.send returns and
\* every continuation runs; push, flush and stop are called or not
LiveSpec ==
    /\ Init
    /\ [][Next]_vars
    /\ \A f \in FlushIds : WF_vars(FlushTimerFire(f))
    /\ WF_vars(PollFire)
    /\ WF_vars(StopTimerFire)
    /\ WF_vars(\E i \in 1..Len(loops) : SleepDone(i))
    /\ WF_vars(\E i \in 1..Len(loops) : \E ok \in BOOLEAN : SendReturn(i, ok))
    /\ WF_vars(\E i \in 1..Len(loops) : DrainResume(i))

TypeOK ==
    /\ processing \in BOOLEAN
    /\ shutdown \in BOOLEAN
    /\ throttle \in 0..MAX_THROTTLE
    /\ inFlight \in 0..MaxPush
    /\ kfail \in 0..MAX_THROTTLE
    /\ lastOk \in {"none", "ok", "null"}
    /\ Len(pushes) <= MaxPush
    /\ completed \subseteq PushIds

---------------------------------------------------------------------------
(* Vocabulary of the properties *)

\* the accepted notices among the first n pushed, in push order
RECURSIVE AcceptedUpTo(_)
AcceptedUpTo(n) ==
    IF n = 0 THEN <<>>
    ELSE IF pushes[n].ret THEN Append(AcceptedUpTo(n - 1), n)
    ELSE AcceptedUpTo(n - 1)

AcceptedSeq == AcceptedUpTo(Len(pushes))

IsPrefix(a, b) == Len(a) <= Len(b) /\ SubSeq(b, 1, Len(a)) = a

PayloadsQueued == {k \in 1..Len(queue) : queue[k].type = "payload"}

MarkersQueued == {k \in 1..Len(queue) : queue[k].type = "FLUSH"}

\* the payloads a drain loop holds, then the queue
InPipe == [k \in 1..Len(loops) |-> Payload(loops[k].id)] \o queue

---------------------------------------------------------------------------
(* Delivery order *)

\* C1: the Transport receives the accepted payloads in push order and one at
\* a time: what has been handed to it is a prefix of the accepted notices,
\* every payload handed over before the latest has completed its send, a
\* sleeping loop has no send under way, at most one Transport call is in
\* flight, and once no loop is active and no payload is queued the Transport
\* has received exactly the accepted notices.
C1_SequentialInOrder ==
    /\ inFlight <= 1
    /\ IsPrefix(sent, AcceptedSeq)
    /\ \A k \in 1..(Len(sent) - 1) : sent[k] \in completed
    /\ \A i \in 1..Len(loops) : loops[i].pc = "sleep" => inFlight = 0
    /\ (loops = <<>> /\ PayloadsQueued = {}) => sent = AcceptedSeq

\* three notices were accepted, two sends have completed, the third is in flight
C1_Witness ==
    /\ Len(sent) = 3
    /\ Cardinality(completed) = 2
    /\ inFlight = 1
    /\ PayloadsQueued # {}

\* C2: at most one drain loop is active, the processing flag says whether one
\* is, and a push or a flush that arrives while a loop is suspended only
\* enqueues its item: the suspended loop is left as it is and none is started.
C2_Inv == Len(loops) <= 1 /\ (processing <=> Len(loops) = 1)

C2_Step ==
    /\ (loops # <<>> /\ Len(pushes') = Len(pushes) + 1 /\ pushes'[Len(pushes')].ret)
          => /\ loops' = loops
             /\ queue' = Append(queue, Payload(Len(pushes')))
    /\ \A f \in FlushIds :
          (loops # <<>> /\ flushes[f].state = "unused" /\ flushes'[f].state # "unused")
          => /\ loops' = loops
             /\ queue' = Append(queue, FLUSH(f))

C2_SingleDrain == []C2_Inv /\ [][C2_Step]_vars

\* a loop is suspended while a payload, a flush marker and the shutdown marker wait
C2_Witness ==
    /\ Len(loops) = 1
    /\ PayloadsQueued # {}
    /\ MarkersQueued # {}
    /\ shutdown

\* C3: at most one network attempt is made for a notice the queue accepted,
\* none for a notice it rejected, and a payload that has been handed to the
\* Transport is not in the queue again, whatever its send returned.
C3_AtMostOnce ==
    /\ \A id \in PushIds : attempts[id] <= 1
    /\ \A id \in PushIds : id \notin Accepted => attempts[id] = 0
    /\ \A k \in PayloadsQueued : attempts[queue[k].ref] = 0
    /\ \A k, l \in PayloadsQueued : queue[k].ref = queue[l].ref => k = l

\* a send returned null, its loop has gone on and ended, nothing is queued
C3_Witness ==
    /\ lastOk = "null"
    /\ Cardinality(completed) = 2
    /\ loops = <<>>
    /\ queue = <<>>
    /\ \A id \in completed : attempts[id] = 1

---------------------------------------------------------------------------
(* Admission to the queue *)

\* C4: push returns false exactly when stop has been called or the queue
\* holds maxQueueSize items, and then leaves the queue as it is; otherwise it
\* returns true and puts exactly one payload, the notice pushed, at the tail:
\* behind the items queued when a drain loop is active, and into the hands of
\* the drain loop that push starts when none is.
C4_Step ==
    Len(pushes') = Len(pushes) + 1 =>
        LET n        == Len(pushes')
            rejected == shutdown \/ Len(queue) >= MaxQueueSize
        IN  /\ pushes'[n].ret = ~rejected
            /\ rejected => queue' = queue /\ loops' = loops
            /\ ~rejected => /\ InPipe' = Append(InPipe, Payload(n))
                            /\ loops # <<>> => queue' = Append(queue, Payload(n))
                            /\ loops = <<>> => /\ queue' = queue
                                               /\ Len(loops') = 1
                                               /\ loops'[1].id = n

C4_PushContract == [][C4_Step]_vars

\* a push was accepted, one was rejected by a full queue, one after stop
C4_Witness ==
    \E i, j, k \in 1..Len(pushes) :
        /\ pushes[i].ret
        /\ ~pushes[j].ret /\ pushes[j].full /\ ~pushes[j].stopped
        /\ ~pushes[k].ret /\ pushes[k].stopped

\* C5 as claimed: the queue never holds more than maxQueueSize items of any kind
C5_AllItemsBounded == Len(queue) <= MaxQueueSize

\* the flush calls made so far
FlushCalls == {f \in FlushIds : flushes[f].state # "unused"}

\* C5 as amended: the queue never holds more than maxQueueSize payloads; the
\* flush markers and the shutdown marker are enqueued without a capacity test,
\* so the queue holds at most maxQueueSize items plus one per flush call plus
\* one once stop has been called.
C5_PayloadsBounded ==
    /\ Cardinality(PayloadsQueued) <= MaxQueueSize
    /\ Len(queue) <= MaxQueueSize + Cardinality(FlushCalls)
                       + (IF shutdown THEN 1 ELSE 0)

\* the queue is full of payloads and holds markers beyond its capacity
C5_Witness ==
    /\ Cardinality(PayloadsQueued) = MaxQueueSize
    /\ Len(queue) > MaxQueueSize

\* C6: every push that returned false called the logger
C6_EveryDropLogged == \A i \in 1..Len(pushes) : ~pushes[i].ret => pushes[i].warned

---------------------------------------------------------------------------
(* Throttling *)

\* a send returned in this step
SendReturned == inFlight' = inFlight - 1

\* C7: the level starts at 0, stays within 0..100, goes up by one (not above
\* 100) in a step in which a send returns null, down by one (not below 0) in
\* a step in which a send returns a response, and no other step changes it.
C7_Step ==
    /\ (SendReturned /\ lastOk' = "null")
          => throttle' = (IF throttle < 100 THEN throttle + 1 ELSE 100)
    /\ (SendReturned /\ lastOk' = "ok")
          => throttle' = (IF throttle > 0 THEN throttle - 1 ELSE 0)
    /\ ~SendReturned => throttle' = throttle

C7_ThrottleLevel ==
    /\ throttle = 0
    /\ [](throttle >= 0 /\ throttle <= 100)
    /\ [][C7_Step]_vars

\* the level is at its cap after a failed send, and another send is under way
C7_Witness ==
    /\ throttle = 100
    /\ lastOk = "null"
    /\ kfail = 0
    /\ inFlight = 1

\* the drain loop is inside sendWithThrottle and its send has not returned
Sending(i) == loops[i].pc \in {"sleep", "send"}

\* C8: after K failed sends in a row from level 0 (0 < K <= 100) the drain
\* loop sleeps round((1.05^K - 1) * 1000) ms before it sends, which is 50 ms
\* for K = 1, 103 ms for K = 2, 158 ms for K = 3, 629 ms for K = 10 and
\* 130501 ms for K = 100; at level 0 it sends without sleeping; and a success
\* after the K failures leaves the level at K - 1.
C8_Inv ==
    \A i \in 1..Len(loops) :
        Sending(i) =>
            /\ throttle = 0 => ~loops[i].slept
            /\ kfail > 0 => /\ loops[i].slept
                            /\ loops[i].delay = DelayTable[kfail]
            /\ kfail = 1 => loops[i].delay = 50
            /\ kfail = 2 => loops[i].delay = 103
            /\ kfail = 3 => loops[i].delay = 158
            /\ kfail = 10 => loops[i].delay = 629
            /\ kfail = 100 => loops[i].delay = 130501

C8_Step ==
    (kfail > 0 /\ SendReturned /\ lastOk' = "ok") => throttle' = kfail - 1

C8_ThrottleDelay == []C8_Inv /\ [][C8_Step]_vars

\* a hundred sends in a row have failed and the loop sleeps before the next
C8_Witness ==
    /\ kfail = 100
    /\ Len(loops) = 1
    /\ loops[1].pc = "sleep"
    /\ loops[1].delay = 130501

---------------------------------------------------------------------------
(* flush *)

\* C9: a flush call always has its timer armed while it is pending, is
\* resolved once the timer has fired, whatever the worker is doing, and so,
\* timers firing, every pending flush is resolved.
C9_Inv ==
    \A f \in FlushIds :
        /\ flushes[f].state = "pending" => flushes[f].timer = "armed"
        /\ flushes[f].timer = "fired" => flushes[f].state = "resolved"

C9_FlushResolves ==
    /\ []C9_Inv
    /\ \A f \in FlushIds :
          (flushes[f].state = "pending") ~> (flushes[f].state = "resolved")

\* flush was called after stop on an idle worker: its marker stays queued
\* behind the shutdown marker and the timer resolved the promise
C9_Witness ==
    \E f \in FlushIds :
        /\ flushes[f].by = "timer"
        /\ shutdown
        /\ loops = <<>>
        /\ \E k \in MarkersQueued : queue[k].ref = f

\* C10: when a flush has been resolved by its marker, every notice accepted
\* before the flush call has completed its send attempt.
C10_FlushAfterPayloads ==
    \A f \in FlushIds :
        flushes[f].by = "marker" => flushes[f].before \subseteq completed

\* a flush called behind two queued notices was resolved by its marker
C10_Witness ==
    \E f \in FlushIds :
        /\ flushes[f].by = "marker"
        /\ Cardinality(flushes[f].before) >= 2
        /\ flushes[f].timer = "armed"

---------------------------------------------------------------------------
(* stop *)

\* C11: when stop is called on a worker whose queue is empty and whose drain
\* loop is idle, the promise of stop is resolved by the drained-and-idle test
\* of waitForDrain and never by the fallback timer.
C11_IdleStopResolvesByDrain == stopper.idle => stopper.by # "timer"

---------------------------------------------------------------------------
(* Client.send *)

\* the call followed has returned
Returned == call.pc = "done"

\* the response arrived with status 201 and its body parsed to a value that
\* is not null
Parsed201 == call.cause = "response" /\ call.status = 201
             /\ call.body \in {"object", "value"}

\* the diagnostic the claim names for each way a send can fail
Diagnostic ==
    IF call.cause = "timeout" THEN "error: Request timeout"
    ELSE IF call.cause \in {"network", "payload"} THEN "error: Failed to send notice"
    ELSE IF call.status = 201 THEN "error: Failed to send notice"
    ELSE IF call.status = 400 THEN "warn: Bad request"
    ELSE IF call.status = 401 THEN "error: Authentication failed"
    ELSE IF call.status = 422 THEN "warn: Invalid notice payload"
    ELSE IF call.status = 429 THEN "warn: Rate limited"
    ELSE IF call.status \in {500, 503} THEN "error: Server error"
    ELSE "error: Unexpected response"

\* C12 as stated: send returns a response if and only if the status is 201.
C12_ResponseIff201 ==
    Returned => (call.ret = "response" <=> call.status = 201)

\* C12: send never throws; it returns a response exactly when the status is
\* 201 and the body parsed to a value that is not null, after one debug line;
\* in every other case (another status, a 201 whose body cannot be read or
\* parsed or is null, a timeout, a network error, a payload that cannot be
\* serialised) it returns null after exactly one diagnostic of the matching
\* class.
C12_SendContract ==
    Returned =>
        /\ call.ret \in {"response", "null"}
        /\ call.ret = "response" <=> Parsed201
        /\ Len(call.logs) = 1
        /\ call.logs[1] = IF Parsed201 THEN "debug: Notice sent successfully"
                          ELSE Diagnostic

\* a send whose server answered 503 returned null after the server-error line
C12_Witness ==
    /\ Returned
    /\ call.status = 503
    /\ call.ret = "null"
    /\ call.logs = <<"error: Server error">>

\* C13: every call of send returns, whatever the server does, the timer of
\* send firing when due.
C13_SendCompletes == (call.pc \in {"fetch", "body"}) ~> Returned

---------------------------------------------------------------------------
(* The context store *)

\* every value of the mapping m was written by an actor of W
WrittenBy(m, W) == \A k \in DOMAIN m : m[k].w \in W

\* new is old with the keys of m set to the values of m and nothing else changed
MergedByKey(old, m, new) ==
    /\ DOMAIN new = DOMAIN old \cup DOMAIN m
    /\ \A k \in DOMAIN new : new[k] = IF k \in DOMAIN m THEN m[k] ELSE old[k]

\* the stores of the scopes other than t are as they were
OtherScopesSame(t) == \A u \in ScopeIds \ {t} : scopes'[u] = scopes[u]

\* what the actors other than t read is as it was
OtherReadsSame(t) ==
    \A u \in Actors \ {t} :
        Running(u) => /\ GetContext(u)' = GetContext(u)
                      /\ GetUser(u)' = GetUser(u)

\* what a running scope reads was written outside every scope or by itself,
\* and what code outside every scope reads was written outside every scope
C14_Inv ==
    /\ \A t \in ScopeIds :
          Running(t) => /\ WrittenBy(GetContext(t), {0, t})
                        /\ WrittenBy(GetUser(t), {0, t})
    /\ WrittenBy(GetContext(0), {0})
    /\ WrittenBy(GetUser(0), {0})

\* what a scope writes it reads back, and no other actor reads anything else
\* than before
C14_Step ==
    \A t \in ScopeIds :
        /\ \A m \in CtxArgs[t] :
              SetContext(t, m) =>
                  /\ \A k \in DOMAIN m : GetContext(t)'[k] = m[k]
                  /\ OtherReadsSame(t)
        /\ \A m \in UserArgs[t] :
              SetUser(t, m) =>
                  /\ \A k \in DOMAIN m : GetUser(t)'[k] = m[k]
                  /\ OtherReadsSame(t)
        /\ Clear(t) => OtherReadsSame(t)
        /\ EndScope(t) => OtherReadsSame(t)

\* C14: what setContext and setUser write inside a scope is read back by
\* getContext and getUser inside that scope, is never read by another scope
\* whatever the interleaving of their steps, and is not read outside every
\* scope, before or after the scope has ended.
C14_ScopeIsolation == []C14_Inv /\ [][C14_Step]_vars

\* both scopes run and hold a value of their own under the same key, code
\* outside has written that key too, and each scope reads its own value
C14_Witness ==
    /\ scopes[1].state = "active"
    /\ scopes[2].state = "active"
    /\ "a" \in DOMAIN scopes[1].context
    /\ "a" \in DOMAIN scopes[2].context
    /\ "a" \in DOMAIN globalContext
    /\ GetContext(1)["a"].w = 1
    /\ GetContext(2)["a"].w = 2

\* C15: setContext and setUser merge their argument by key into the store of
\* the running scope and leave the fallback and everything else unchanged;
\* outside every scope they merge it into the fallback and leave every store
\* unchanged.  Keys the argument does not name keep their values.
C15_Step ==
    /\ \A t \in ScopeIds :
          /\ \A m \in CtxArgs[t] :
                SetContext(t, m) =>
                    /\ MergedByKey(scopes[t].context, m, scopes'[t].context)
                    /\ scopes'[t].user = scopes[t].user
                    /\ scopes'[t].request = scopes[t].request
                    /\ OtherScopesSame(t)
                    /\ UNCHANGED <<globalContext, globalUser>>
          /\ \A m \in UserArgs[t] :
                SetUser(t, m) =>
                    /\ MergedByKey(scopes[t].user, m, scopes'[t].user)
                    /\ scopes'[t].context = scopes[t].context
                    /\ scopes'[t].request = scopes[t].request
                    /\ OtherScopesSame(t)
                    /\ UNCHANGED <<globalContext, globalUser>>
    /\ \A m \in CtxArgs[0] :
          SetContext(0, m) =>
              /\ MergedByKey(globalContext, m, globalContext')
              /\ UNCHANGED <<globalUser, scopes>>
    /\ \A m \in UserArgs[0] :
          SetUser(0, m) =>
              /\ MergedByKey(globalUser, m, globalUser')
              /\ UNCHANGED <<globalContext, scopes>>

C15_SetMerges == [][C15_Step]_vars

\* a scope that set the key a and then the key b holds both, and the fallback
\* holds neither
C15_Witness ==
    /\ scopes[1].state = "active"
    /\ DOMAIN scopes[1].context = {"a", "b"}
    /\ DOMAIN scopes[1].user = {"id"}
    /\ globalContext = EmptyMap
    /\ globalUser = EmptyMap

\* the keys of both mappings, with the value of scoped for a key scoped has
\* and the value of fallback otherwise
ScopedWins(fallback, scoped, got) ==
    /\ DOMAIN got = DOMAIN fallback \cup DOMAIN scoped
    /\ \A k \in DOMAIN got :
          got[k] = IF k \in DOMAIN scoped THEN scoped[k] ELSE fallback[k]

\* C16: what getContext and getUser return in a running scope has the keys
\* of the fallback and of the store of the scope, with the value of the store
\* for a key the store has and the value of the fallback otherwise; outside
\* every scope they return the fallback.
C16_GetMerges ==
    /\ \A t \in ScopeIds :
          Running(t) =>
              /\ ScopedWins(globalContext, scopes[t].context, GetContext(t))
              /\ ScopedWins(globalUser, scopes[t].user, GetUser(t))
    /\ GetContext(0) = globalContext
    /\ GetUser(0) = globalUser

\* the fallback and the store of a running scope hold different values under
\* the key a, and only the fallback holds the key b
C16_Witness ==
    /\ scopes[1].state = "active"
    /\ DOMAIN globalContext = {"a", "b"}
    /\ DOMAIN scopes[1].context = {"a"}
    /\ DOMAIN globalUser = {"id"}
    /\ DOMAIN scopes[1].user = {"id"}
    /\ GetContext(1)["a"].w = 1
    /\ GetContext(1)["b"].w = 0
    /\ GetUser(1)["id"].w = 1

\* C17: clear inside a scope empties the context, user and request of that
\* scope and leaves the fallback and every other scope unchanged; clear
\* outside every scope empties the fallback context and user and leaves
\* every scope unchanged.
C17_Step ==
    /\ \A t \in ScopeIds :
          Clear(t) =>
              /\ scopes'[t].context = EmptyMap
              /\ scopes'[t].user = EmptyMap
              /\ scopes'[t].request = EmptyMap
              /\ scopes'[t].state = "active"
              /\ OtherScopesSame(t)
              /\ UNCHANGED <<globalContext, globalUser>>
    /\ Clear(0) =>
          /\ globalContext' = EmptyMap
          /\ globalUser' = EmptyMap
          /\ UNCHANGED scopes

C17_ClearFrame == [][C17_Step]_vars

\* scope 1 was cleared while scope 2 and the fallback hold data
C17_Witness ==
    /\ scopes[1].state = "active"
    /\ scopes[1].context = EmptyMap
    /\ scopes[1].user = EmptyMap
    /\ scopes[1].request = EmptyMap
    /\ DOMAIN scopes[2].context = {"a", "b"}
    /\ DOMAIN scopes[2].request = {"url"}
    /\ DOMAIN globalContext = {"a"}
    /\ DOMAIN globalUser = {"id"}

---------------------------------------------------------------------------
(* SanitizeFilter *)

\* sanitize has returned
Sanitized == san.pc \in {"once", "twice"}

\* the lowercase form of key contains the lowercase form of a filter key
KeyMatches(key, K) ==
    \E i \in 1..Len(K) :
        \E p \in 0..(Len(key) - Len(K[i])) :
            SubSeq(ToLowerCase(key), p + 1, p + Len(K[i])) = ToLowerCase(K[i])

\* what the claim says of a value that is no mapping and no array
LeafKept(in, out) ==
    /\ in.kind \in {"null", "num"} => out = in
    /\ in.kind = "str" => /\ out.kind = "str"
                          /\ StrLen(in.s) <= TRUNCATE_LIMIT => out = in
    /\ in.kind = "buf" => out = Str(Lit("[Buffer]"))

\* out is in with, down to the depth bound, the value of every matching key
\* replaced by the marker and every other key, array element and leaf kept
RECURSIVE KeysFiltered(_, _, _, _)
KeysFiltered(K, in, out, depth) ==
    IF depth > MAX_DEPTH THEN TRUE
    ELSE IF in.kind = "obj"
    THEN /\ out.kind = "obj"
         /\ Len(out.fields) = Len(in.fields)
         /\ \A i \in 1..Len(in.fields) :
               /\ out.fields[i].key = in.fields[i].key
               /\ IF KeyMatches(in.fields[i].key, K)
                  THEN out.fields[i].val = FILTERED
                  ELSE KeysFiltered(K, in.fields[i].val, out.fields[i].val, depth + 1)
    ELSE IF in.kind = "arr"
    THEN /\ out.kind = "arr"
         /\ Len(out.items) = Len(in.items)
         /\ \A i \in 1..Len(in.items) :
               KeysFiltered(K, in.items[i], out.items[i], depth + 1)
    ELSE LeafKept(in, out)

EndsWithMarker(s) == s # <<>> /\ <<s[Len(s)]>> = Lit("...[TRUNCATED]")

\* C19: sanitize of a string longer than the cap has exactly the length of
\* the cap and ends with the truncation marker; sanitize of a string of at
\* most that length is the string.
C19_TruncatedToCap ==
    (Sanitized /\ san.input.kind = "str") =>
        IF StrLen(san.input.s) > TRUNCATE_LIMIT
        THEN /\ san.out.kind = "str"
             /\ StrLen(san.out.s) = TRUNCATE_LIMIT
             /\ EndsWithMarker(san.out.s)
        ELSE san.out = san.input

\* C20: sanitize of what sanitize returned is what sanitize returned.
C20_Idempotent == san.pc = "twice" => san.again = san.out

\* a string cut at the cap, the marker of a filtered key, the marker of a
\* subtree below the depth bound or the placeholder of a binary value went
\* through sanitize once more
C20_Witness ==
    /\ san.pc = "twice"
    /\ san.again = san.out
    /\ \/ san.out = Str(Filler(TRUNCATE_LIMIT - 13) \o Lit("...[TRUNCATED]"))
       \/ san.out = Obj(<<[key |-> <<"p", "w">>, val |-> FILTERED]>>)
       \/ san.out = Padded(Arr(<<FILTERED, FILTERED>>), MAX_DEPTH)
       \/ san.out = Arr(<<Num(1), Str(Lit("[Buffer]"))>>)

\* out is in with every value below the depth bound replaced by the marker
\* and every value at the bound or above it kept: a mapping with its keys, an
\* array with its length, a leaf as sanitize leaves it; the value of a
\* filtered key is left to the key filter
RECURSIVE DepthBounded(_, _, _, _)
DepthBounded(K, in, out, depth) ==
    IF depth > MAX_DEPTH THEN out = FILTERED
    ELSE IF in.kind = "obj"
    THEN /\ out.kind = "obj"
         /\ Len(out.fields) = Len(in.fields)
         /\ \A i \in 1..Len(in.fields) :
               /\ out.fields[i].key = in.fields[i].key
               /\ \/ KeyMatches(in.fields[i].key, K)
                  \/ DepthBounded(K, in.fields[i].val, out.fields[i].val, depth + 1)
    ELSE IF in.kind = "arr"
    THEN /\ out.kind = "arr"
         /\ Len(out.items) = Len(in.items)
         /\ \A i \in 1..Len(in.items) :
               DepthBounded(K, in.items[i], out.items[i], depth + 1)
    ELSE /\ out # FILTERED \/ in = FILTERED
         /\ LeafKept(in, out)

C22_SanitizeReturns == san.pc # "thrown"

---------------------------------------------------------------------------
(* createNotice and toPayload *)

\* createNotice has returned
Created == ntc.pc \in {"created", "payload"}

\* the places of text where a line begins
LineStarts(text) == {1} \cup {i + 1 : i \in {j \in 1..Len(text) : text[j] = "\n"}}

\* the line that begins at p is a stack-frame line: "at " after blanks only
FrameAt(text, p) ==
    \E q \in p..(Len(text) - 2) :
        /\ \A j \in p..(q - 1) : text[j] \in WhiteSpace
        /\ SubSeq(text, q, q + 2) = <<"a", "t", " ">>

\* the number of stack-frame lines of error.stack
FrameTotal(stack) ==
    IF Falsy(stack) THEN 0
    ELSE Cardinality({p \in LineStarts(stack.s) : FrameAt(stack.s, p)})

EndsWith(line, suffix) ==
    /\ Len(line) >= Len(suffix)
    /\ SubSeq(line, Len(line) - Len(suffix) + 1, Len(line)) = suffix

\* C23: a Notice returned by createNotice has a message of at most
\* MAX_MESSAGE_LENGTH characters and at most MAX_BACKTRACE_LINES frames; an
\* empty or missing message gives "Unknown error", an empty or missing name
\* the class "Error"; a message longer than the cap is cut to exactly the cap
\* and ends with "...", a shorter one is kept; the backtrace is made of the
\* first MAX_BACKTRACE_LINES stack-frame lines, in their order (the i-th
\* frame line of a trace ends with the line number i).
C23_NoticeBounded ==
    Created =>
        LET n == ntc.notice
            e == ntc.error
            total == FrameTotal(e.stack)
        IN  /\ StrLen(n.message.s) <= MAX_MESSAGE_LENGTH
            /\ Len(n.backtrace) <= MAX_BACKTRACE_LINES
            /\ Falsy(e.message) => n.message = Str(Lit("Unknown error"))
            /\ n.errorClass = IF Falsy(e.name) THEN Str(Lit("Error")) ELSE e.name
            /\ ~Falsy(e.message) =>
                  IF StrLen(e.message.s) > MAX_MESSAGE_LENGTH
                  THEN /\ StrLen(n.message.s) = MAX_MESSAGE_LENGTH
                       /\ <<n.message.s[Len(n.message.s)]>> = Lit("...")
                       /\ Substring(n.message.s, MAX_MESSAGE_LENGTH - 3)
                             = Substring(e.message.s, MAX_MESSAGE_LENGTH - 3)
                  ELSE n.message = e.message
            /\ Len(n.backtrace) = IF total <= MAX_BACKTRACE_LINES THEN total
                                  ELSE MAX_BACKTRACE_LINES
            /\ \A i \in 1..Len(n.backtrace) :
                  /\ StartsWith(n.backtrace[i], <<"a", "t", " ">>)
                  /\ EndsWith(n.backtrace[i], <<":">> \o Decimal(i))

\* an error without a name, with a message of 15000 characters and a trace
\* of 101 frame lines and one other line gave a Notice at both caps
C23_Witness ==
    /\ ntc.pc = "created"
    /\ ntc.error.name = Undefined
    /\ ntc.error.message = Str(Filler(MAX_MESSAGE_LENGTH + 5000))
    /\ ntc.error.stack = StackOf(MAX_BACKTRACE_LINES + 1, TRUE, FALSE)
    /\ ntc.notice.errorClass = Str(Lit("Error"))
    /\ ntc.notice.message = Str(Filler(MAX_MESSAGE_LENGTH - 3) \o Lit("..."))
    /\ Len(ntc.notice.backtrace) = MAX_BACKTRACE_LINES

\* C24: when a root path is configured, no frame of the backtrace of the
\* Notice contains the root path: every occurrence of it is replaced by
\* [PROJECT_ROOT], also in a frame that holds it more than once.
C24_RootReplaced ==
    (Created /\ ~Falsy(ntc.options.rootPath)) =>
        \A i \in 1..Len(ntc.notice.backtrace) :
            Occurrences(ntc.notice.backtrace[i], ntc.options.rootPath.s) = {}

\* the payload has the tag list of a notice with tags and no tags field
\* (undefined, which JSON.stringify leaves out) for a notice without
C25_Inv ==
    ntc.pc = "payload" =>
        /\ ntc.payload.error.tags # Arr(<<>>)
        /\ IF ntc.notice.tags.items = <<>>
           THEN ntc.payload.error.tags = Undefined
           ELSE ntc.payload.error.tags = ntc.notice.tags

\* toPayload leaves the notice as it was
C25_Step == ntc.pc = "created" => ntc'.notice = ntc.notice

\* C25: the payload toPayload returns has no tags field when the tag list of
\* the notice is empty and has the tag list of the notice otherwise, never
\* an empty one; toPayload does not change the notice.
C25_TagsOmittedWhenEmpty == []C25_Inv /\ [][C25_Step]_vars

\* a notice made with an empty tag list was converted
C25_Witness ==
    /\ ntc.pc = "payload"
    /\ ntc.options.tags = Arr(<<>>)
    /\ ntc.notice.tags = Arr(<<>>)
    /\ ntc.payload.error.tags = Undefined

\* the last call of the façade was one that reports an error
Reported ==
    fac.last.entry \in {"notify", "notifySync", "uncaughtException",
                        "unhandledRejection"}

\* the error of the last call matches an ignore pattern of the configuration
\* by the class, the message or the code a notice of it would carry
MatchesIgnored ==
    IF fac.config = NoConfig THEN FALSE
    ELSE ShouldIgnore(fac.config, OrElse(fac.last.error.name, Text("Error")),
                      OrElse(fac.last.error.message, Text("Unknown error")),
                      fac.last.error.code)

\* C26: a call of notify, notifySync, the uncaughtException handler or the
\* unhandledRejection handler with an error that matches a configured ignore
\* pattern gives no notice to worker.push or client.sendNotice.
C26_IgnoredNeverHanded ==
    (Reported /\ MatchesIgnored) => fac.last.handed = <<>>

\* the callbacks configured
Callbacks == IF fac.config = NoConfig THEN <<>> ELSE fac.config.beforeNotify

\* the places of the callbacks that return false
Falses == {i \in 1..Len(Callbacks) : Callbacks[i] = "false"}

\* the callbacks up to the first that returns false, all when none does
UpToFirstFalse ==
    LET last == IF Falses = {} THEN Len(Callbacks)
                ELSE CHOOSE i \in Falses : \A j \in Falses : i <= j
    IN  [i \in 1..last |-> i]

\* the last call was a notify or notifySync that came to its callbacks
CallbacksRun ==
    /\ fac.last.entry \in {"notify", "notifySync"}
    /\ fac.last.stage \in {"blocked", "sent"}

\* C27: in a call of notify or notifySync that comes to its callbacks, the
\* callbacks are called in order up to the first that returns false; when
\* one returns false the notice goes neither to worker.push nor to
\* client.sendNotice; each callback that throws gives one warning and the
\* callbacks after it are still called; when none returns false the notice
\* is given to worker.push or client.sendNotice exactly once.
C27_CallbacksVeto ==
    CallbacksRun =>
        /\ fac.last.ran = UpToFirstFalse
        /\ Falses # {} => fac.last.handed = <<>>
        /\ Falses = {} => Len(fac.last.handed) = 1
        /\ Len(SelectSeq(fac.last.logs, LAMBDA l : l.level = "warn"))
             = Cardinality({i \in 1..Len(fac.last.ran) :
                               Callbacks[fac.last.ran[i]] = "throws"})
        /\ fac.last.outcome = "returned"

\* a callback threw, the one after it was called and the notice went on once
C27_Witness ==
    /\ CallbacksRun
    /\ Callbacks = <<"throws", "true">>
    /\ fac.last.ran = <<1, 2>>
    /\ Len(fac.last.handed) = 1
    /\ fac.last.logs = <<Log("warn", "beforeNotify callback failed")>>

\* C28: a notice given to worker.push or client.sendNotice by notify,
\* notifySync or one of the two handlers was given to every configured
\* callback before, and none of them returned false.
C28_FilteredBeforeHanded ==
    (Reported /\ fac.last.handed # <<>>) =>
        /\ Falses = {}
        /\ fac.last.ran = [i \in 1..Len(Callbacks) |-> i]

\* a configure without key logged its warning and returned
KeyMissingWarned ==
    (fac.last.entry = "configure" /\ fac.mode = "nokey") =>
        /\ fac.last.logs = <<Log("warn", "Invalid configuration: apiKey is required")>>
        /\ fac.last.outcome = "returned"

\* C29: a notice is given to worker.push or client.sendNotice only when the
\* last of configure, stop and reset to complete was a configure with a key
\* and with the SDK enabled: not before configure, not after a configure
\* without key (which logs a warning and returns) or with the SDK disabled,
\* not after stop or reset.
C29_InertUnlessActive ==
    /\ (Reported /\ fac.mode # "ok") =>
           (fac.last.handed = <<>> /\ fac.last.stage = "inert")
    /\ KeyMissingWarned

\* the uncaughtException handler, left installed by an earlier configure, was
\* called after a configure without key and did nothing
C29_Witness ==
    /\ fac.last.entry = "uncaughtException"
    /\ fac.mode = "nokey"
    /\ fac.last.stage = "inert"
    /\ fac.last.handed = <<>>

\* C30: every call of notify returns and no promise of notifySync rejects,
\* whatever error, context, user and request it is given.
C30_NeverPropagates ==
    fac.last.entry \in {"notify", "notifySync"} => fac.last.outcome = "returned"

\* C31: whenever the handler of the SDK for uncaughtException or
\* unhandledRejection is called and a listener of the host was saved when it
\* was installed, the handler calls that listener at its end, also for an
\* error that matches an ignore pattern and while the SDK is disabled or
\* without key.
C31_OriginalAlwaysInvoked ==
    (/\ fac.last.entry \in {"uncaughtException", "unhandledRejection"}
     /\ OriginalHandler(fac, fac.last.entry) = "host")
        => fac.last.original

\* notify or notifySync has built a notice and handed it over
Handed ==
    /\ fac.last.entry \in {"notify", "notifySync"}
    /\ fac.last.stage = "sent"
    /\ fac.last.handed # <<>>

\* every key of v, at every level, that matches a filter key has the marker
\* for its value
RECURSIVE AllMarked(_, _)
AllMarked(K, v) ==
    IF v.kind = "obj"
    THEN \A i \in 1..Len(v.fields) :
            IF KeyMatches(v.fields[i].key, K) THEN v.fields[i].val = FILTERED
            ELSE AllMarked(K, v.fields[i].val)
    ELSE IF v.kind = "arr"
    THEN \A i \in 1..Len(v.items) : AllMarked(K, v.items[i])
    ELSE TRUE

\* v with another value under every key that matches a filter key
RECURSIVE OtherSecrets(_, _)
OtherSecrets(K, v) ==
    IF v.kind = "obj"
    THEN Obj([i \in 1..Len(v.fields) |->
                 [key |-> v.fields[i].key,
                  val |-> IF KeyMatches(v.fields[i].key, K) THEN Num(0)
                          ELSE OtherSecrets(K, v.fields[i].val)]])
    ELSE IF v.kind = "arr"
    THEN Arr([i \in 1..Len(v.items) |-> OtherSecrets(K, v.items[i])])
    ELSE v

\* a mapping of the store with another value under every key that matches
OtherSecretsMap(K, m) ==
    [k \in DOMAIN m |-> IF KeyMatches(<<k>>, K) THEN [w |-> 9, n |-> 9] ELSE m[k]]

\* what the call read, with other values under the keys that match
OtherRun(K, src) ==
    [actor |-> src.actor,
     global |-> [context |-> OtherSecretsMap(K, src.global.context),
                 user |-> OtherSecretsMap(K, src.global.user)],
     local |-> [context |-> OtherSecretsMap(K, src.local.context),
                user |-> OtherSecretsMap(K, src.local.user),
                request |-> OtherSecretsMap(K, src.local.request)],
     options |-> [src.options EXCEPT !.context = OtherSecrets(K, @),
                                     !.user = OtherSecrets(K, @),
                                     !.request = OtherSecrets(K, @)]]

NotifyHanded == Handed /\ fac.last.entry = "notify"

\* the process-wide data, the data of the scope and the data of the options
\* the call read for a block of the notice, in that order
Sources(src, block) ==
    IF block = "context"
    THEN <<AsObj(src.global.context), AsObj(src.local.context),
           Spreadable(src.options.context)>>
    ELSE <<AsObj(src.global.user), AsObj(src.local.user), Spreadable(src.options.user)>>

KeysOf(obj) == {obj.fields[i].key : i \in 1..Len(obj.fields)}

\* the value of the last of the sources that sets the key
Winner(S, key) ==
    IF HasKey(S[3], key) THEN ValueOf(S[3], key)
    ELSE IF HasKey(S[2], key) THEN ValueOf(S[2], key)
    ELSE ValueOf(S[1], key)

\* out has the keys of the three sources, each once
HasAllKeys(out, S) ==
    /\ KeysOf(out) = KeysOf(S[1]) \cup KeysOf(S[2]) \cup KeysOf(S[3])
    /\ Len(out.fields) = Cardinality(KeysOf(out))

\* out is the merge of the three sources, the later source winning
IsMerge(out, S) ==
    /\ HasAllKeys(out, S)
    /\ \A key \in KeysOf(out) : ValueOf(out, key) = Winner(S, key)

\* out is the merge of the three sources as the SanitizeFilter returns it
IsSanitizedMerge(K, out, S) ==
    /\ HasAllKeys(out, S)
    /\ \A key \in KeysOf(out) :
          IF KeyMatches(key, K) THEN ValueOf(out, key) = FILTERED
          ELSE KeysFiltered(K, Winner(S, key), ValueOf(out, key), 1)

C38_ConfiguredNotifyDelivers ==
    (fac.ready /\ fac.last.entry = "notify") => fac.last.stage # "inert"
\* a step of an adapter
AdapterStep == web' # web

\* C39: no step of an adapter changes the process-wide context or user or
\* the store of another scope, the clear() at the end of a request leaves
\* the store of that request empty, and the notify an adapter calls for an
\* error raised while the request is handled reads the context, user and
\* request the adapter set for it.
C39_Step ==
    AdapterStep =>
        /\ globalContext' = globalContext
        /\ globalUser' = globalUser
        /\ \A u \in ScopeIds : u # web'.scope => scopes'[u] = scopes[u]
        /\ (web.pc # "idle" /\ web'.pc = "idle") => scopes'[web.scope] = NewStore

C39_Seen ==
    (web.error /\ fac.last.entry = "notify" /\ fac.last.source # Null)
        => fac.last.source.local = web.set

C39_AdapterFrame == []C39_Seen /\ [][C39_Step]_vars

\* C40: the timer of Worker.flush called without a timeout has the
\* configured request timeout, a number of milliseconds (15000 by default),
\* for its delay; called with a timeout it has that number of seconds, as
\* the timer of stop has.
C40_FlushTimerDelay ==
    (tmr.pc = "armed" /\ tmr.op = "flush") =>
        tmr.delay = IF tmr.arg = NoNumber THEN TimerConfig(tmr.options).timeout
                    ELSE tmr.arg[1] * 1000
---------------------------------------------------------------------------
(* The Worker after stop *)

\* the payloads handed to the Transport so far
SentIds == {sent[k] : k \in 1..Len(sent)}

\* while the queue holds a payload a drain loop is running, and no payload
\* is in the queue behind the shutdown marker
DrainCovers ==
    /\ PayloadsQueued # {} => (processing /\ Len(loops) > 0)
    /\ \A k \in PayloadsQueued : \A j \in 1..(k - 1) : queue[j].type # "SHUTDOWN"

\* the payloads in the queue
QueuedIds == {queue[k].ref : k \in PayloadsQueued}

\* the promise of stop was resolved by its timer
TimerWon == stopper.by = "timer"

\* C34 as stated: after the timer of stop has resolved its promise, no
\* payload still in the queue is handed to the Transport; only a payload
\* the drain loop had taken from the queue before may still be sent.
C34_TimerAbandons ==
    [][(TimerWon /\ sent' # sent) => sent'[Len(sent')] \notin QueuedIds]_vars

\* C34 amended: when the timer of stop resolves its promise, stop only ends
\* its wait: the drain loop goes on, and every payload still in the queue
\* then is handed to the Transport afterwards, once and in its turn, as the
\* sends before it return.
C34_TimerOnlyStopsWaiting ==
    /\ [](TimerWon => /\ DrainCovers
                      /\ \A i \in QueuedIds : attempts[i] = 0)
    /\ \A i \in PushIds : (TimerWon /\ i \in QueuedIds) ~> (i \in SentIds)

\* the timer of stop has won, the drain loop is sending a payload it took
\* from the queue, and another payload is still in the queue
C34_Witness ==
    /\ TimerWon
    /\ QueuedIds # {}
    /\ processing
    /\ Len(loops) = 1
    /\ loops[1].pc = "send"

\* C35: while the queue holds a payload a drain loop is running, no payload
\* is in the queue behind the shutdown marker, and every notice push
\* accepted is handed to the Transport in the end, whatever calls of flush
\* and stop follow, when the timers fire and the sends return.
C35_AcceptedDelivered ==
    /\ []DrainCovers
    /\ \A i \in PushIds : (i \in Accepted) ~> (i \in SentIds)

\* flush and stop were called while accepted payloads were in the queue, and
\* every accepted payload has been handed to the Transport
C35_Witness ==
    /\ shutdown
    /\ ~stopper.idle
    /\ flushes[1].state # "unused"
    /\ Cardinality(flushes[1].before) >= 2
    /\ Cardinality(Accepted) >= 3
    /\ Accepted \subseteq SentIds

\* C36: after stop has been called the drain poll ends: the check that
\* waitForDrain re-arms every 100 ms finds the queue empty and no loop
\* running at some time, also when the timer of stop has resolved it.
C36_PollEnds == stopper.poll ~> ~stopper.poll

---------------------------------------------------------------------------
(* flush of the façade *)

\* C37: when flush() of the façade is resolved and not by its timer, every
\* notice notify handed on and that was accepted before the call of flush
\* has had its delivery attempt return; in async mode, with async: false and
\* after more than one configure
C37_FlushCoversAccepted == FlushedBeforeTimer => pipe.flush.before \subseteq completed

===========================================================================
